---- MODULE Spec2Model ----
(***************************************************************************)
(* The blog backend: registration with e-mail confirmation, login with a   *)
(* signed token, the token gate in front of the protected routes, and the  *)
(* user and user-type routes.  Every route handler is one action; the      *)
(* tables of the database, the clock and the tokens the clients hold are   *)
(* the state.  What a handler answers is a value computed from the state   *)
(* it runs in (see Answer); the action installs the tables it leaves.      *)
(***************************************************************************)
EXTENDS Integers, Sequences, FiniteSets, TLC

(* ------------------------------ bounds -------------------------------- *)
\* ids 1..MaxId are handed out by uuid(); a create needs a free one
MaxId == 5
\* instants the clock can stop at after each landmark (see Instants)
MaxSkew == 1
\* tokens the clients keep for later requests
MaxTokens == 1
\* resolution of the clock: ticks in one second (Date.now() is finer than
\* the whole seconds a token's iat and exp are written in)
TicksPerSecond == 2

\* articles, tags and article-tag rows the tables of ArticleSpec can come to hold
MaxArticles == 2
MaxTags == 3
MaxRows == 4
\* longest tagIds list a request carries
MaxTagIds == 2
\* most articles the table of ListSpec holds
MaxListed == 21
\* requests in flight at once in RaceSpec, and the ids uuid() hands them
MaxRequests == 2
MaxRaceId == 6

(* ------------------------- program constants -------------------------- *)
\* dayjs().subtract(15, "minute")
ExpiryMinutes == 15
\* expirationTime = "30d"
ExpirationDays == 30
\* bcrypt.hash(password, 10)
SaltRounds == 10
\* z.string().min(4) on name, username and credential
MinNameLen == 4
\* z.string().min(8).max(32) on password
MinPasswordLen == 8
MaxPasswordLen == 32

ExpiryWindow == ExpiryMinutes * 60 * TicksPerSecond
ExpirationSeconds == ExpirationDays * 24 * 60 * 60
ExpirationTicks == ExpirationSeconds * TicksPerSecond

\* env.JWT_SECRET_KEY, and a key somebody else signs with
JWT_SECRET_KEY == "secret"
OtherKey == "guess"

(* ------------------------------ inputs -------------------------------- *)
\* a name is its words: "Ann Lee".split(" ") = <<"Ann", "Lee">>
Names == {<<"Ann", "Lee">>, <<"Bob">>}
\* strings sent as username, email or credential
Strings == {"anna", "a@b.co", "c@d.co"}
\* strings sent as the username of a registration
Usernames == {"anna", "a@b.co"}
\* those of Strings that z.string().email() accepts
EmailShaped == {"a@b.co", "c@d.co"}
Passwords == {"password1", "password2"}
\* passwords sent with a registration
NewPasswords == {"password1"}
TypeNames == {"common", "admin"}
Ids == 1..MaxId

\* the clock stops at these instants: near time 0, past the confirmation
\* window of a row staged near 0, and at and past 30 days
Instants ==
  (0..MaxSkew) \cup {ExpiryWindow + MaxSkew, ExpirationTicks, ExpirationTicks + MaxSkew}

\* listAllArticles: take = 10, page = 1 when the query string leaves them out
DefaultTake == 10
DefaultPage == 1
\* take: z.coerce.number().int().min(1).max(100); page: min(1)
MinTake == 1
MaxTake == 100
MinPage == 1

(* ------------------------- strings and hashes ------------------------- *)
RECURSIVE SumLen(_)
SumLen(words) == IF words = <<>> THEN 0 ELSE Len(Head(words)) + SumLen(Tail(words))
\* length of the string whose split(" ") is words
StrLen(words) == IF words = <<>> THEN 0 ELSE SumLen(words) + Len(words) - 1
\* name.split(" ")[0]
FirstName(name) == name[1]

\* a password value: text under `layers` applications of bcrypt.hash
Plain(text) == [text |-> text, layers |-> 0, rounds |-> 0]
BcryptHash(pw, rounds) == [text |-> pw.text, layers |-> pw.layers + 1, rounds |-> rounds]
\* bcrypt.compare(plain, stored): stored is the hash of exactly plain
BcryptCompare(plain, stored) == stored.layers = plain.layers + 1 /\ stored.text = plain.text

(* ------------------------------- state -------------------------------- *)
VARIABLES
  users,             \* table users
  unconfirmedUsers,  \* table unconfirmed_users
  userTypes,         \* table user_types
  now,               \* the clock, in ticks
  nextId,            \* the next id uuid() hands out
  issued,            \* tokens returned by login that a client still holds
  removed,           \* history: <<id, how>> of every unconfirmed row deleted
  refused,           \* history kept by ConfirmEmailSeen: ids whose confirmation
                     \* met the missing "common" type
  loggedOut          \* history kept by LogoutSeen: claims of the tokens
                     \* presented to a logout that ran

VARIABLES
  articles,          \* table articles
  articleTags,       \* table article_tags
  tags,              \* table tags
  nextArticleId,     \* the next id uuid() hands out to an article
  nextRowId,         \* the sequence behind article_tags.id
  nextTagId,         \* the sequence behind tags.id
  listed             \* the last GET /articles and its answer, for ListSpec

VARIABLES
  requests           \* RaceSpec: the requests in flight, each with the place
                     \* its handler has reached and what it holds in its locals

userVars == <<users, unconfirmedUsers, userTypes, now, nextId, issued, removed,
              refused, loggedOut>>
articleVars ==
  <<articles, articleTags, tags, nextArticleId, nextRowId, nextTagId, listed>>
vars == <<userVars, articleVars, requests>>

NoToken == [none |-> TRUE]
NoUser == [none |-> TRUE]

\* What a handler did, computed from the state it ran in: the tables it left,
\* the ids it drew, and its answer: `status` of an explicit reply or `thrown`,
\* the class of the error it let escape, with its message; `sent` the mails
\* it dispatched; `token` and `user` what login returned and what the gate
\* attached to the request; `ran` whether the route's own handler ran.
Answer(op, status, thrown, message) ==
  [op |-> op, status |-> status, thrown |-> thrown, message |-> message,
   users |-> users, unconfirmedUsers |-> unconfirmedUsers, userTypes |-> userTypes,
   nextId |-> nextId, sent |-> <<>>, token |-> NoToken, user |-> NoUser,
   id |-> 0, ran |-> TRUE]
Reply(op, status) == Answer(op, status, "none", "")
Throw(op, class, message) == Answer(op, 0, class, message)

\* the state after a handler that answered a
Serve(a) ==
  /\ users' = a.users
  /\ unconfirmedUsers' = a.unconfirmedUsers
  /\ userTypes' = a.userTypes
  /\ nextId' = a.nextId
  /\ UNCHANGED <<articleVars, requests>>

\* a request answered a, when uuid() still has the ids it draws
Install(a) ==
  /\ a.nextId <= MaxId + 1
  /\ Serve(a)

(* ----------------------------- the tables ----------------------------- *)
\* variant: only the username is unique
UserUniqueOkUsername(us, row) ==
  \A u \in us : u.id # row.id => u.username # row.username

\* @unique username and @unique email of model User
UserUniqueOk(us, row) ==
  \A u \in us : u.id # row.id => (u.username # row.username /\ u.email # row.email)
\* userType @relation(fields: [userTypeId], references: [id])
UserTypeFkOk(types, row) == \E t \in types : t.id = row.userTypeId
\* variant: unconfirmed_users without its unique indexes
UnconfirmedUniqueOkNone(rows, row) == TRUE

\* @unique username and @unique email of model UnconfirmedUser
UnconfirmedUniqueOk(rows, row) ==
  \A r \in rows : r.id # row.id => (r.username # row.username /\ r.email # row.email)
\* @unique type of model UserType
UserTypeUniqueOk(types, row) ==
  \A t \in types : t.id # row.id => t.type # row.type

(* --------------------------- request schemas -------------------------- *)
ValidPassword(text) == Len(text) >= MinPasswordLen /\ Len(text) <= MaxPasswordLen
\* body of POST /users
ValidCreateBody(b) ==
  /\ StrLen(b.name) >= MinNameLen
  /\ Len(b.username) >= MinNameLen
  /\ b.email \in EmailShaped
  /\ ValidPassword(b.password)

(* ------------------------------- mails -------------------------------- *)
\* the link of the confirmation mail: .../users/confirm-email?user_id=<userId>
ConfirmationEmail(name, email, userId) ==
  [kind |-> "confirmation", toName |-> name, to |-> email, link |-> userId]
successEmail(name, email) ==
  [kind |-> "success", toName |-> name, to |-> email, link |-> 0]

\* no GET /articles was answered yet
NoListing == [op |-> "none"]

\* the places for requests in flight, and a place no request has taken
Slots == 1..MaxRequests
Idle ==
  [op |-> "idle", pc |-> "idle", body |-> <<>>, user_id |-> 0,
   existingUsername |-> FALSE, existingUser |-> NoUser, userType |-> NoUser,
   created |-> 0, attempts |-> 0, sent |-> <<>>,
   status |-> 0, thrown |-> "none", message |-> ""]

(* ------------------------------- Init --------------------------------- *)
\* the first account, registered and confirmed before the run starts
FirstAccount ==
  [id |-> 3, name |-> <<"Ann", "Lee">>, username |-> "anna", email |-> "a@b.co",
   password |-> BcryptHash(Plain("password1"), SaltRounds), userTypeId |-> 1]

\* the database after the migrations, the seed and the first registration
Init ==
  /\ users = {FirstAccount}
  /\ unconfirmedUsers = {}
  /\ userTypes = {[id |-> 1, type |-> "common"], [id |-> 2, type |-> "admin"]}
  /\ now = 0
  /\ nextId = 4
  /\ issued = {}
  /\ removed = {}
  /\ refused = {}
  /\ loggedOut = {}
  /\ articles = {}
  /\ articleTags = {}
  /\ tags = {}
  /\ nextArticleId = 1
  /\ nextRowId = 1
  /\ nextTagId = 1
  /\ listed = NoListing
  /\ requests = [p \in Slots |-> Idle]

(* ------------------------------ the clock ----------------------------- *)
\* variant: a sweep that drops the staged rows as they leave the window
TickSweeping ==
  /\ \E t \in Instants :
       /\ t > now /\ now' = t
       /\ unconfirmedUsers' =
            {r \in unconfirmedUsers : ~(r.createdAt < t - ExpiryWindow)}
  /\ UNCHANGED <<users, userTypes, nextId, issued, removed, refused, loggedOut>>
  /\ UNCHANGED <<articleVars, requests>>

\* time passes between the requests; nothing runs on a timer
Tick ==
  /\ \E t \in Instants : t > now /\ now' = t
  /\ UNCHANGED <<users, unconfirmedUsers, userTypes, nextId, issued, removed, refused, loggedOut>>
  /\ UNCHANGED <<articleVars, requests>>

(* ------------------------- POST /users (public) ----------------------- *)
\* prisma.user.findFirst({ where: { username } })
ExistingUsername(username) == \E u \in users : u.username = username
\* variant: the e-mail looked up among the staged rows, not among the users
ExistingEmailStaged(email) == \E u \in unconfirmedUsers : u.email = email
\* prisma.user.findFirst({ where: { email } })
ExistingEmail(email) == \E u \in users : u.email = email

\* variant: the password stored as it was sent
StagedRowPlain(id, name, username, email, password, t) ==
  [id |-> id, name |-> name, username |-> username, email |-> email,
   password |-> Plain(password), createdAt |-> t]
\* the row prisma.unconfirmedUser.create is asked to insert
StagedRow(id, name, username, email, password, t) ==
  [id |-> id, name |-> name, username |-> username, email |-> email,
   password |-> BcryptHash(Plain(password), SaltRounds), createdAt |-> t]

createUnconfirmedUser(name, username, email, password) ==
  LET req == [name |-> name, username |-> username, email |-> email, password |-> password]
      op == "createUnconfirmedUser"
      user == StagedRow(nextId, name, username, email, password, now)
  IN
  IF ~ValidCreateBody(req) THEN Throw(op, "ValidationError", "body")
  ELSE IF ExistingUsername(username) THEN Throw(op, "ClientError", "Username already in use")
  ELSE IF ExistingEmail(email) THEN Throw(op, "ClientError", "Email already in use")
  ELSE IF ~UnconfirmedUniqueOk(unconfirmedUsers, user)
    \* prisma.unconfirmedUser.create rejects: unique constraint
    THEN Throw(op, "PrismaError", "Unique constraint failed")
  ELSE [Reply(op, 202) EXCEPT
          !.unconfirmedUsers = unconfirmedUsers \cup {user},
          !.nextId = nextId + 1,
          !.sent = <<ConfirmationEmail(FirstName(name), email, user.id)>>,
          !.id = user.id]

CreateUnconfirmedUser ==
  \E a \in {createUnconfirmedUser(name, username, email, password) :
             name \in Names, username \in Usernames, email \in Strings,
             password \in NewPasswords} :
    Install(a) /\ UNCHANGED <<now, issued, removed, refused, loggedOut>>

(* ------------------- GET /users/confirm-email (public) ---------------- *)
\* variant: isAfter in the place of isBefore
ExpiredIfAfter(row, t) == row.createdAt > t - ExpiryWindow
\* variant: isBefore taken as "not after"
ExpiredAtWindow(row, t) == row.createdAt <= t - ExpiryWindow

\* dayjs(existingUser.createdAt).isBefore(dayjs().subtract(15, "minute"))
Expired(row, t) == row.createdAt < t - ExpiryWindow

\* variant: the stored hash hashed once more on promotion
AccountRowRehashed(id, existingUser, userType) ==
  [id |-> id, name |-> existingUser.name, username |-> existingUser.username,
   email |-> existingUser.email,
   password |-> BcryptHash(existingUser.password, SaltRounds),
   userTypeId |-> userType.id]
\* the row createAccount asks prisma.user.create to insert
AccountRow(id, existingUser, userType) ==
  [id |-> id, name |-> existingUser.name, username |-> existingUser.username,
   email |-> existingUser.email, password |-> existingUser.password,
   userTypeId |-> userType.id]

\* variant: findFirst without its where clause
CommonTypesAny == userTypes

\* prisma.userType.findFirst({ where: { type: "common" } })
CommonTypes == {t \in userTypes : t.type = "common"}

\* variant: findFirst without its where clause
StagedAny(user_id) == unconfirmedUsers
\* prisma.unconfirmedUser.findFirst({ where: { id: user_id } })
Staged(user_id) == {r \in unconfirmedUsers : r.id = user_id}

\* the steps a run of confirmEmail can be cut short at by the database or by
\* the mail transport: the delete of the staged row, the send of the mail
Faults == {"none", "delete", "mail"}

\* variant: the User taken back when the delete of the staged row fails
PromotedRolledBack(existingUser, user, fault) ==
  LET op == "confirmEmail"
      created == [Answer(op, 0, "none", "") EXCEPT
                    !.users = users \cup {user},
                    !.nextId = nextId + 1,
                    !.id = existingUser.id]
  IN
  IF fault = "delete"
    THEN [Throw(op, "PrismaError", "delete failed") EXCEPT !.id = existingUser.id]
  ELSE IF fault = "mail"
    THEN [created EXCEPT !.thrown = "MailError", !.message = "sendMail failed",
                         !.unconfirmedUsers = unconfirmedUsers \ {existingUser}]
  ELSE [created EXCEPT
          !.status = 200,
          !.unconfirmedUsers = unconfirmedUsers \ {existingUser},
          !.sent = <<successEmail(FirstName(user.name), user.email)>>]

\* variant: the success mail sent before the staged row is deleted
PromotedMailFirst(existingUser, user, fault) ==
  LET op == "confirmEmail"
      created == [Answer(op, 0, "none", "") EXCEPT
                    !.users = users \cup {user},
                    !.nextId = nextId + 1,
                    !.id = existingUser.id]
  IN
  IF fault = "mail"
    THEN [created EXCEPT !.thrown = "MailError", !.message = "sendMail failed"]
  ELSE IF fault = "delete"
    THEN [created EXCEPT !.thrown = "PrismaError", !.message = "delete failed",
                         !.sent = <<successEmail(FirstName(user.name), user.email)>>]
  ELSE [created EXCEPT
          !.status = 200,
          !.unconfirmedUsers = unconfirmedUsers \ {existingUser},
          !.sent = <<successEmail(FirstName(user.name), user.email)>>]

\* confirmEmail from the return of createAccount on: the delete of the staged
\* row, then the success mail, then the reply; a step that fails throws and
\* the steps after it do not run
Promoted(existingUser, user, fault) ==
  LET op == "confirmEmail"
      created == [Answer(op, 0, "none", "") EXCEPT
                    !.users = users \cup {user},
                    !.nextId = nextId + 1,
                    !.id = existingUser.id]
  IN
  IF fault = "delete"
    THEN [created EXCEPT !.thrown = "PrismaError", !.message = "delete failed"]
  ELSE IF fault = "mail"
    THEN [created EXCEPT !.thrown = "MailError", !.message = "sendMail failed",
                         !.unconfirmedUsers = unconfirmedUsers \ {existingUser}]
  ELSE [created EXCEPT
          !.status = 200,
          !.unconfirmedUsers = unconfirmedUsers \ {existingUser},
          !.sent = <<successEmail(FirstName(user.name), user.email)>>]

\* a run of confirmEmail in which the step `fault` fails if it is reached
confirmEmailWith(user_id, fault) ==
  LET op == "confirmEmail" IN
  IF Staged(user_id) = {}
    THEN [Throw(op, "ClientError", "User does not exist") EXCEPT !.id = user_id]
  ELSE
    LET existingUser == CHOOSE r \in Staged(user_id) : TRUE IN
    IF Expired(existingUser, now)
      THEN [Throw(op, "ClientError", "Register expired, please try again") EXCEPT
              !.unconfirmedUsers = unconfirmedUsers \ {existingUser},
              !.id = user_id]
    ELSE IF CommonTypes = {}
      THEN [Throw(op, "Error", "User type 'common' not found.") EXCEPT !.id = user_id]
    ELSE
      LET userType == CHOOSE t \in CommonTypes : TRUE
          user == AccountRow(nextId, existingUser, userType)
      IN
      IF ~UserUniqueOk(users, user)
        \* prisma.user.create rejects: unique constraint
        THEN [Throw(op, "PrismaError", "Unique constraint failed") EXCEPT !.id = user_id]
      ELSE Promoted(existingUser, user, fault)

\* a run of confirmEmail in which no step fails
confirmEmail(user_id) == confirmEmailWith(user_id, "none")

\* history of the staging rows deleted by an answer
Removal(a) ==
  IF a.op = "confirmEmail" /\ a.unconfirmedUsers # unconfirmedUsers
    THEN {<<a.id, IF a.users # users THEN "promoted" ELSE "expired">>}
    ELSE {}

\* history of the confirmations that met the missing "common" type
Refusal(a) ==
  IF a.op = "confirmEmail" /\ a.thrown = "Error" THEN {a.id} ELSE {}

ConfirmEmail ==
  \E a \in {confirmEmail(user_id) : user_id \in Ids} :
    /\ Install(a)
    /\ removed' = removed \cup Removal(a)
    /\ UNCHANGED <<now, issued, refused, loggedOut>>

(* ----------------------------- the tokens ----------------------------- *)
\* Math.floor(Date.now() / 1000): a token counts time in whole seconds
Timestamp(t) == t \div TicksPerSecond

\* jwt.sign(payload, key, { expiresIn: "30d" }) at instant t
JwtSign(claims, key, t) ==
  LET payload == [sub |-> claims.sub, name |-> claims.name, username |-> claims.username,
                  type |-> claims.type, iat |-> Timestamp(t),
                  exp |-> Timestamp(t) + ExpirationSeconds]
  IN [payload |-> payload, sig |-> [key |-> key, over |-> payload]]

\* a part of a header is a word or a token
Word(text) == [word |-> text]
IsJwt(part) == DOMAIN part = {"payload", "sig"}
Undefined == [undefined |-> TRUE]

\* variant: a token still taken at the second its exp names
JwtVerifiesLate(token, key, t) ==
  /\ IsJwt(token)
  /\ token.sig = [key |-> key, over |-> token.payload]
  /\ ~(Timestamp(t) > token.payload.exp)
\* jwt.verify(token, key) at instant t does not throw
JwtVerifies(token, key, t) ==
  /\ IsJwt(token)
  /\ token.sig = [key |-> key, over |-> token.payload]
  /\ ~(Timestamp(t) >= token.payload.exp)

(* --------------------- POST /users/login (public) --------------------- *)
ValidLoginBody(credential, password) ==
  Len(credential) >= MinNameLen /\ ValidPassword(password)

\* variant: the credential looked up as a username only
CredentialMatchesUsername(credential) == {u \in users : u.username = credential}
\* where: { OR: [{ username: credential }, { email: credential }] }
CredentialMatches(credential) ==
  {u \in users : u.username = credential \/ u.email = credential}

\* variant: the token signed without comparing the password
loginAsUnchecked(user, password) ==
  [Reply("login", 200) EXCEPT
     !.token = JwtSign([sub |-> user.id, name |-> user.name,
                        username |-> user.username, type |-> user.userTypeId],
                       JWT_SECRET_KEY, now)]
\* the rest of login once findFirst returned user
loginAs(user, password) ==
  IF ~BcryptCompare(Plain(password), user.password)
    THEN Throw("login", "ClientError", "Password does not match")
  ELSE [Reply("login", 200) EXCEPT
          !.token = JwtSign([sub |-> user.id, name |-> user.name,
                             username |-> user.username, type |-> user.userTypeId],
                            JWT_SECRET_KEY, now)]

\* the answers login can give: findFirst has no orderBy, so it returns any
\* one of the matching rows
login(credential, password) ==
  IF ~ValidLoginBody(credential, password)
    THEN {Throw("login", "ValidationError", "body")}
  ELSE IF CredentialMatches(credential) = {}
    THEN {Throw("login", "ClientError", "User does not exist")}
  ELSE {loginAs(user, password) : user \in CredentialMatches(credential)}

Login ==
    \E a \in UNION {login(credential, password) :
                      credential \in Strings, password \in Passwords} :
      /\ Serve(a)
      /\ issued' = IF a.token # NoToken /\ Cardinality(issued) < MaxTokens
                      THEN issued \cup {[token |-> a.token, at |-> now]}
                      ELSE issued
      /\ UNCHANGED <<now, removed, refused, loggedOut>>

(* --------------------------- the token gate --------------------------- *)
\* authorizationHeader.split(" ")[1]
SecondPart(header) == IF Len(header) >= 2 THEN header[2] ELSE Undefined

\* variant: a token refused once its holder logged out
verifyTokenRevoking(header, t) ==
  IF header = <<>>
    THEN [status |-> 401, error |-> "Token not provided", user |-> NoUser]
  ELSE IF \/ ~JwtVerifies(SecondPart(header), JWT_SECRET_KEY, t)
          \/ SecondPart(header).payload \in loggedOut
    THEN [status |-> 401, error |-> "Invalid token", user |-> NoUser]
  ELSE [status |-> 0, error |-> "", user |-> SecondPart(header).payload]

\* variant: a token refused once no User has the id it names
verifyTokenLooking(header, t) ==
  IF header = <<>>
    THEN [status |-> 401, error |-> "Token not provided", user |-> NoUser]
  ELSE IF \/ ~JwtVerifies(SecondPart(header), JWT_SECRET_KEY, t)
          \/ ~\E u \in users : u.id = SecondPart(header).payload.sub
    THEN [status |-> 401, error |-> "Invalid token", user |-> NoUser]
  ELSE [status |-> 0, error |-> "", user |-> SecondPart(header).payload]

\* the preHandler hook: 401 and an error, or the decoded claims
verifyToken(header, t) ==
  IF header = <<>>
    THEN [status |-> 401, error |-> "Token not provided", user |-> NoUser]
  ELSE IF ~JwtVerifies(SecondPart(header), JWT_SECRET_KEY, t)
    THEN [status |-> 401, error |-> "Invalid token", user |-> NoUser]
  ELSE [status |-> 0, error |-> "", user |-> SecondPart(header).payload]

\* variant: the handler run whatever the hook answered
GatedOpen(op, header, a) == [a EXCEPT !.user = verifyToken(header, now).user]
\* app.addHook("preHandler", verifyToken) in front of a route whose handler
\* would answer a: the handler runs only if the hook sent no reply
Gated(op, header, a) ==
  LET g == verifyToken(header, now) IN
  IF g.status = 401
    THEN [Answer(op, 401, "none", g.error) EXCEPT !.ran = FALSE]
    ELSE [a EXCEPT !.user = g.user]

\* the Authorization headers a client may send: none, and the tokens it
\* holds, whole, resigned with another key or with the expiry pushed back,
\* under several shapes of header
HeldTokens == {i.token : i \in issued}
Resigned(t) == [payload |-> t.payload, sig |-> [key |-> OtherKey, over |-> t.payload]]
Prolonged(t) == [payload |-> [t.payload EXCEPT !.exp = @ + ExpirationSeconds], sig |-> t.sig]
Headers ==
  {<<>>, <<Word("Bearer")>>}
    \cup {<<Word("Bearer"), t>> : t \in HeldTokens}
    \cup {<<Word("Basic"), t>> : t \in HeldTokens}
    \cup {<<t>> : t \in HeldTokens}
    \cup {<<Word("Bearer"), Word(""), t>> : t \in HeldTokens}
    \cup {<<Word("Bearer"), Resigned(t)>> : t \in HeldTokens}
    \cup {<<Word("Bearer"), Prolonged(t)>> : t \in HeldTokens}

(* ------------------------ the protected routes ------------------------ *)
\* GET /users
listAllUsers == Reply("listAllUsers", 200)

\* body of PUT /users/:userId: every field is optional
ValidUpdateBody(body) ==
  /\ DOMAIN body \subseteq {"name", "username", "email", "password", "userTypeId"}
  /\ "username" \in DOMAIN body => Len(body.username) >= MinNameLen
  /\ "email" \in DOMAIN body => body.email \in EmailShaped
  /\ "password" \in DOMAIN body => ValidPassword(body.password)

\* variant: the password written as it was sent
UpdateDataPlain(body) ==
  [f \in DOMAIN body |->
     IF f = "password" THEN Plain(body.password) ELSE body[f]]

\* data: { ...request.body, password }, password hashed if one was sent
UpdateData(body) ==
  [f \in DOMAIN body |->
     IF f = "password" THEN BcryptHash(Plain(body.password), SaltRounds) ELSE body[f]]

\* a row with the fields of data written over it
Patched(row, data) ==
  [f \in DOMAIN row |-> IF f \in DOMAIN data THEN data[f] ELSE row[f]]

\* PUT /users/:userId
updateUser(userId, body) ==
  LET op == "updateUser"
      found == {u \in users : u.id = userId}
  IN
  IF ~ValidUpdateBody(body) THEN Throw(op, "ValidationError", "body")
  ELSE IF found = {} THEN Throw(op, "PrismaError", "Record to update not found")
  ELSE
    LET old == CHOOSE u \in found : TRUE
        user == Patched(old, UpdateData(body))
    IN
    IF ~UserUniqueOk(users, user) THEN Throw(op, "PrismaError", "Unique constraint failed")
    ELSE IF ~UserTypeFkOk(userTypes, user)
      THEN Throw(op, "PrismaError", "Foreign key constraint failed")
    ELSE [Reply(op, 200) EXCEPT !.users = (users \ {old}) \cup {user}, !.id = userId]

\* variant: a User deleted whatever still refers to it
deleteUserUnrestricted(userId) ==
  LET op == "deleteUser"
      found == {u \in users : u.id = userId}
  IN
  IF found = {} THEN Throw(op, "PrismaError", "Record to delete does not exist")
  ELSE [Reply(op, 200) EXCEPT !.users = users \ found, !.id = userId]

\* DELETE /users/:userId; articles_user_id_fkey is ON DELETE RESTRICT
deleteUser(userId) ==
  LET op == "deleteUser"
      found == {u \in users : u.id = userId}
  IN
  IF found = {} THEN Throw(op, "PrismaError", "Record to delete does not exist")
  ELSE IF \E a \in articles : a.userId = userId
    THEN Throw(op, "PrismaError", "Foreign key constraint failed")
  ELSE [Reply(op, 200) EXCEPT !.users = users \ found, !.id = userId]

\* POST /users/logout: clears the cookie of the client
logout == Reply("logout", 200)

\* POST /user-types
createUserType(type) ==
  LET op == "createUserType"
      userType == [id |-> nextId, type |-> type]
  IN
  IF ~UserTypeUniqueOk(userTypes, userType)
    THEN Throw(op, "PrismaError", "Unique constraint failed")
  ELSE [Reply(op, 201) EXCEPT
          !.userTypes = userTypes \cup {userType}, !.nextId = nextId + 1, !.id = userType.id]

\* GET /user-types
listAllUserTypes == Reply("listAllUserTypes", 200)

\* PUT /user-types/:id
updateUserType(id, type) ==
  LET op == "updateUserType"
      found == {t \in userTypes : t.id = id}
      userType == [id |-> id, type |-> type]
  IN
  IF found = {} THEN Throw(op, "PrismaError", "Record to update not found")
  ELSE IF ~UserTypeUniqueOk(userTypes, userType)
    THEN Throw(op, "PrismaError", "Unique constraint failed")
  ELSE [Reply(op, 200) EXCEPT !.userTypes = (userTypes \ found) \cup {userType}, !.id = id]

\* DELETE /user-types/:id; users_user_type_id_fkey is ON DELETE RESTRICT
deleteUserType(id) ==
  LET op == "deleteUserType"
      found == {t \in userTypes : t.id = id}
  IN
  IF found = {} THEN Throw(op, "PrismaError", "Record to delete does not exist")
  ELSE IF \E u \in users : u.userTypeId = id
    THEN Throw(op, "PrismaError", "Foreign key constraint failed")
  ELSE [Reply(op, 200) EXCEPT !.userTypes = userTypes \ found, !.id = id]

\* the bodies sent to PUT /users/:userId
UpdateBodies ==
  {<<>>, [password |-> "password2"]}
    \cup {[username |-> s] : s \in Usernames}
    \cup {[email |-> s] : s \in Strings}

\* the answers of a protected route to the headers a client may send: the
\* gate, then one of the handler's answers
Protected(op, answers) ==
  UNION {{Gated(op, header, b) : b \in answers} : header \in Headers}

\* the answers of each handler to the requests the clients send
UsersAnswers == {listAllUsers}
UpdateUserAnswers == {updateUser(userId, body) : userId \in Ids, body \in UpdateBodies}
DeleteUserAnswers == {deleteUser(userId) : userId \in Ids}
LogoutAnswers == {logout}
CreateUserTypeAnswers == {createUserType(type) : type \in TypeNames}
UserTypesAnswers == {listAllUserTypes}
UpdateUserTypeAnswers == {updateUserType(id, type) : id \in Ids, type \in TypeNames}
DeleteUserTypeAnswers == {deleteUserType(id) : id \in Ids}

ListAllUsers ==
  \E a \in Protected("listAllUsers", UsersAnswers) :
    Install(a) /\ UNCHANGED <<now, issued, removed, refused, loggedOut>>
UpdateUser ==
  \E a \in Protected("updateUser", UpdateUserAnswers) :
    Install(a) /\ UNCHANGED <<now, issued, removed, refused, loggedOut>>
DeleteUser ==
  \E a \in Protected("deleteUser", DeleteUserAnswers) :
    Install(a) /\ UNCHANGED <<now, issued, removed, refused, loggedOut>>
Logout ==
  \E a \in Protected("logout", LogoutAnswers) :
    Install(a) /\ UNCHANGED <<now, issued, removed, refused, loggedOut>>
CreateUserType ==
  \E a \in Protected("createUserType", CreateUserTypeAnswers) :
    Install(a) /\ UNCHANGED <<now, issued, removed, refused, loggedOut>>
ListAllUserTypes ==
  \E a \in Protected("listAllUserTypes", UserTypesAnswers) :
    Install(a) /\ UNCHANGED <<now, issued, removed, refused, loggedOut>>
UpdateUserType ==
  \E a \in Protected("updateUserType", UpdateUserTypeAnswers) :
    Install(a) /\ UNCHANGED <<now, issued, removed, refused, loggedOut>>
DeleteUserType ==
  \E a \in Protected("deleteUserType", DeleteUserTypeAnswers) :
    Install(a) /\ UNCHANGED <<now, issued, removed, refused, loggedOut>>

Next ==
  \/ Tick
  \/ CreateUnconfirmedUser
  \/ ConfirmEmail
  \/ Login
  \/ ListAllUsers
  \/ UpdateUser
  \/ DeleteUser
  \/ Logout
  \/ CreateUserType
  \/ ListAllUserTypes
  \/ UpdateUserType
  \/ DeleteUserType

Spec == Init /\ [][Next]_vars

(* --------- the server with confirmations seen and cut short ---------- *)
\* GET /users/confirm-email, any of its runs, remembering the refusals
ConfirmEmailSeen ==
  \E a \in {confirmEmailWith(user_id, fault) : user_id \in Ids, fault \in Faults} :
    /\ Install(a)
    /\ removed' = removed \cup Removal(a)
    /\ refused' = refused \cup Refusal(a)
    /\ UNCHANGED <<now, issued, loggedOut>>

ConfirmNext ==
  \/ Tick
  \/ CreateUnconfirmedUser
  \/ ConfirmEmailSeen
  \/ Login
  \/ ListAllUsers
  \/ UpdateUser
  \/ DeleteUser
  \/ Logout
  \/ CreateUserType
  \/ ListAllUserTypes
  \/ UpdateUserType
  \/ DeleteUserType

ConfirmSpec == Init /\ [][ConfirmNext]_vars

(* --------------------- the server with logouts seen ------------------- *)
\* POST /users/logout, remembering whose token it was called with
LogoutSeen ==
  \E a \in Protected("logout", LogoutAnswers) :
    /\ Install(a)
    /\ loggedOut' = IF a.ran THEN loggedOut \cup {a.user} ELSE loggedOut
    /\ UNCHANGED <<now, issued, removed, refused>>

LogoutNext ==
  \/ Tick
  \/ CreateUnconfirmedUser
  \/ ConfirmEmail
  \/ Login
  \/ ListAllUsers
  \/ UpdateUser
  \/ DeleteUser
  \/ LogoutSeen
  \/ CreateUserType
  \/ ListAllUserTypes
  \/ UpdateUserType
  \/ DeleteUserType

LogoutSpec == Init /\ [][LogoutNext]_vars
(* ------------------------ articles and their tags --------------------- *)
TagNames == {"news", "tech", "life"}
TagIds == 1..MaxTags
ArticleIds == 1..MaxArticles
\* the tagIds lists a request carries: repeated ids and ids of no tag included
TagLists == UNION {[1..n -> TagIds] : n \in 0..MaxTagIds}
\* request.user.sub of a verified token: the first account, or one deleted since
Subs == {FirstAccount.id, MaxId}

\* what a handler of the article routes answers, and the tables it leaves
ArticleAnswer(op, status, thrown, message) ==
  [op |-> op, status |-> status, thrown |-> thrown, message |-> message,
   articles |-> articles, articleTags |-> articleTags, tags |-> tags,
   nextArticleId |-> nextArticleId, nextRowId |-> nextRowId,
   nextTagId |-> nextTagId, id |-> 0]
ArticleReply(op, status) == ArticleAnswer(op, status, "none", "")
ArticleThrow(op, class, message) == ArticleAnswer(op, 0, class, message)

\* the state after a handler of the article routes that answered a, while
\* the tables have room for what it wrote
InstallArticles(a) ==
  /\ a.nextArticleId <= MaxArticles + 1
  /\ a.nextRowId <= MaxRows + 1
  /\ a.nextTagId <= MaxTags + 1
  /\ articles' = a.articles
  /\ articleTags' = a.articleTags
  /\ tags' = a.tags
  /\ nextArticleId' = a.nextArticleId
  /\ nextRowId' = a.nextRowId
  /\ nextTagId' = a.nextTagId
  /\ UNCHANGED <<userVars, listed, requests>>

\* the rows createMany writes for the list tagIds of article articleId, the
\* sequence behind article_tags.id standing at firstId
NewRows(articleId, tagIds, firstId) ==
  {[id |-> firstId + i - 1, articleId |-> articleId, tagId |-> tagIds[i]] :
     i \in 1..Len(tagIds)}

\* variant: createMany with skipDuplicates, which drops the rows the unique
\* index rejects
CreateManyOkSkipping(rows, allTags, articleId, tagIds) ==
  \A i \in 1..Len(tagIds) : \E t \in allTags : t.id = tagIds[i]

\* createMany of article_tags is one statement: it writes every row or none.
\* article_tags_tag_id_fkey and the unique index on (article_id, tag_id)
CreateManyOk(rows, allTags, articleId, tagIds) ==
  /\ \A i \in 1..Len(tagIds) : \E t \in allTags : t.id = tagIds[i]
  /\ \A i \in 1..Len(tagIds) :
       ~\E r \in rows : r.articleId = articleId /\ r.tagId = tagIds[i]
  /\ \A i, j \in 1..Len(tagIds) : i # j => tagIds[i] # tagIds[j]

\* POST /tags
createTag(name) ==
  LET op == "createTag" IN
  IF \E t \in tags : t.name = name
  THEN ArticleThrow(op, "PrismaError", "Unique constraint failed")
  ELSE [ArticleReply(op, 201) EXCEPT
          !.tags = tags \cup {[id |-> nextTagId, name |-> name]},
          !.nextTagId = nextTagId + 1,
          !.id = nextTagId]

\* variant: the author read from the body when the body names one
createArticleFromBody(sub, body) ==
  LET op == "createArticle"
      userId == IF "userId" \in DOMAIN body THEN body.userId ELSE sub
      article ==
        [id |-> nextArticleId, title |-> body.title, imageUrl |-> body.imageUrl,
         content |-> body.content,
         published |-> IF "published" \in DOMAIN body THEN body.published ELSE TRUE,
         createdAt |-> now, updatedAt |-> now, userId |-> userId]
  IN
  IF ~\E u \in users : u.id = userId
  THEN ArticleThrow(op, "PrismaError", "Foreign key constraint failed")
  ELSE IF ~CreateManyOk(articleTags, tags, article.id, body.tagIds)
  THEN ArticleThrow(op, "PrismaError", "createMany failed")
  ELSE [ArticleReply(op, 201) EXCEPT
          !.articles = articles \cup {article},
          !.articleTags =
             articleTags \cup NewRows(article.id, body.tagIds, nextRowId),
          !.nextArticleId = nextArticleId + 1,
          !.nextRowId = nextRowId + Len(body.tagIds),
          !.id = article.id]

\* POST /articles, for the user of the token
createArticle(sub, body) ==
  LET op == "createArticle"
      article ==
        [id |-> nextArticleId, title |-> body.title, imageUrl |-> body.imageUrl,
         content |-> body.content,
         published |-> IF "published" \in DOMAIN body THEN body.published ELSE TRUE,
         createdAt |-> now, updatedAt |-> now, userId |-> sub]
  IN
  IF ~\E u \in users : u.id = sub
  THEN ArticleThrow(op, "PrismaError", "Foreign key constraint failed")
  ELSE IF ~CreateManyOk(articleTags, tags, article.id, body.tagIds)
  THEN ArticleThrow(op, "PrismaError", "createMany failed")
  ELSE [ArticleReply(op, 201) EXCEPT
          !.articles = articles \cup {article},
          !.articleTags =
             articleTags \cup NewRows(article.id, body.tagIds, nextRowId),
          !.nextArticleId = nextArticleId + 1,
          !.nextRowId = nextRowId + Len(body.tagIds),
          !.id = article.id]

\* variant: the writes of updateArticle in one transaction
UpdateFailedRolledBack(op, updated, kept) ==
  ArticleThrow(op, "PrismaError", "createMany failed")

\* updateArticle after createMany threw: what article.update and deleteMany
\* wrote before it stays
UpdateFailed(op, updated, kept) ==
  [ArticleThrow(op, "PrismaError", "createMany failed") EXCEPT
     !.articles = updated, !.articleTags = kept]

\* variant: the rows of the article are replaced by fresh ones
TagsToDeleteAll(previousTags, tagIds) == previousTags

\* tagsToDelete: the rows whose tag the new list leaves out
TagsToDelete(previousTags, tagIds) ==
  {r \in previousTags : \A i \in 1..Len(tagIds) : tagIds[i] # r.tagId}

\* variant: no tagIds means the tags stay
NoTagsGivenKeeps(rows, id) == rows

\* deleteMany({ where: { articleId: id } })
NoTagsGiven(rows, id) == {r \in rows : r.articleId # id}

\* PUT /articles/:id
updateArticle(id, body) ==
  LET op == "updateArticle"
      found == {a \in articles : a.id = id}
  IN
  IF found = {} THEN ArticleThrow(op, "PrismaError", "Record to update not found")
  ELSE
    LET old == CHOOSE a \in found : TRUE
        data == [f \in (DOMAIN body \ {"tagIds"}) \cup {"updatedAt"} |->
                   IF f = "updatedAt" THEN now ELSE body[f]]
        article == Patched(old, data)
        updated == (articles \ {old}) \cup {article}
        tagIds == IF "tagIds" \in DOMAIN body THEN body.tagIds ELSE <<>>
    IN
    IF Len(tagIds) > 0 THEN
      LET previousTags == {r \in articleTags : r.articleId = id}
          tagsToDelete == TagsToDelete(previousTags, tagIds)
          kept == articleTags \ tagsToDelete
          previousTagIds == {r.tagId : r \in previousTags}
          IsNew(t) == t \notin previousTagIds
          tagsToCreate == SelectSeq(tagIds, IsNew)
      IN
      IF ~CreateManyOk(kept, tags, id, tagsToCreate)
      THEN UpdateFailed(op, updated, kept)
      ELSE [ArticleReply(op, 200) EXCEPT
              !.articles = updated,
              !.articleTags = kept \cup NewRows(id, tagsToCreate, nextRowId),
              !.nextRowId = nextRowId + Len(tagsToCreate),
              !.id = id]
    ELSE [ArticleReply(op, 200) EXCEPT
            !.articles = updated,
            !.articleTags = NoTagsGiven(articleTags, id),
            !.id = id]

\* DELETE /articles/:id; article_tags_article_id_fkey is ON DELETE RESTRICT
deleteArticle(id) ==
  LET op == "deleteArticle"
      found == {a \in articles : a.id = id}
  IN
  IF found = {} THEN ArticleThrow(op, "PrismaError", "Record to delete does not exist")
  ELSE IF \E r \in articleTags : r.articleId = id
    THEN ArticleThrow(op, "PrismaError", "Foreign key constraint failed")
  ELSE [ArticleReply(op, 200) EXCEPT !.articles = articles \ found, !.id = id]

\* DELETE /tags/:id; article_tags_tag_id_fkey is ON DELETE RESTRICT
deleteTag(id) ==
  LET op == "deleteTag"
      found == {t \in tags : t.id = id}
  IN
  IF found = {} THEN ArticleThrow(op, "PrismaError", "Record to delete does not exist")
  ELSE IF \E r \in articleTags : r.tagId = id
    THEN ArticleThrow(op, "PrismaError", "Foreign key constraint failed")
  ELSE [ArticleReply(op, 200) EXCEPT !.tags = tags \ found, !.id = id]

\* the bodies sent to POST /articles
CreateArticleBodies ==
  {[title |-> <<"a">>, imageUrl |-> "http://x.io/a.png", content |-> "text",
    tagIds |-> l] : l \in TagLists}

\* the bodies sent to PUT /articles/:id: every field is optional
UpdateArticleBodies ==
  {<<>>,
   [title |-> <<"a", "b">>, imageUrl |-> "http://x.io/b.png",
    content |-> "more", published |-> FALSE]}
    \cup {[tagIds |-> l] : l \in TagLists}
    \cup {[title |-> <<"a", "b">>, imageUrl |-> "http://x.io/b.png",
           content |-> "more", published |-> FALSE, tagIds |-> l] :
             l \in TagLists}

CreateTag ==
  \E name \in TagNames : InstallArticles(createTag(name))

CreateArticle ==
  \E sub \in Subs, body \in CreateArticleBodies :
    InstallArticles(createArticle(sub, body))

UpdateArticle ==
  \E id \in ArticleIds, body \in UpdateArticleBodies :
    InstallArticles(updateArticle(id, body))

ArticleNext ==
  \/ CreateTag
  \/ CreateArticle
  \/ UpdateArticle

ArticleSpec == Init /\ [][ArticleNext]_vars

(* ------------- the tables under their foreign keys -------------------- *)
DeleteArticle ==
  \E id \in ArticleIds : InstallArticles(deleteArticle(id))

DeleteTag ==
  \E id \in TagIds : InstallArticles(deleteTag(id))

\* the requests that write and delete the rows the foreign keys tie together
IntegrityNext ==
  \/ Login
  \/ DeleteUser
  \/ DeleteUserType
  \/ CreateTag
  \/ CreateArticle
  \/ DeleteArticle
  \/ DeleteTag

IntegritySpec == Init /\ [][IntegrityNext]_vars

(* ------------------------------ the seed ------------------------------ *)
\* variant: each type created without looking for it first; the create that
\* user_types_type_key rejects throws and ends the run
mainCreating(types, id) ==
  LET common == [id |-> id, type |-> "common"] IN
  IF ~UserTypeUniqueOk(types, common)
    THEN [userTypes |-> types, nextId |-> id, thrown |-> "PrismaError"]
  ELSE
    LET admin == [id |-> id + 1, type |-> "admin"] IN
    IF ~UserTypeUniqueOk(types \cup {common}, admin)
      THEN [userTypes |-> types \cup {common}, nextId |-> id + 1,
            thrown |-> "PrismaError"]
    ELSE [userTypes |-> types \cup {common, admin}, nextId |-> id + 2,
          thrown |-> "none"]

\* main() of the seed over the table types, uuid() standing at id: each of
\* "common" and "admin" is looked for and created if findFirst found none
main(types, id) ==
  LET commonUser == {t \in types : t.type = "common"}
      withCommon == IF commonUser = {}
                      THEN types \cup {[id |-> id, type |-> "common"]}
                      ELSE types
      idThen == IF commonUser = {} THEN id + 1 ELSE id
      adminUser == {t \in withCommon : t.type = "admin"}
  IN
  IF adminUser = {}
    THEN [userTypes |-> withCommon \cup {[id |-> idThen, type |-> "admin"]},
          nextId |-> idThen + 1, thrown |-> "none"]
    ELSE [userTypes |-> withCommon, nextId |-> idThen, thrown |-> "none"]

\* one run of the seed against the database
Seed ==
  LET m == main(userTypes, nextId) IN
    /\ Install([Reply("seed", 0) EXCEPT !.userTypes = m.userTypes,
                                       !.nextId = m.nextId])
    /\ UNCHANGED <<now, issued, removed, refused, loggedOut>>

\* the seed run again and again between the requests that change user_types
SeedNext ==
  \/ Tick
  \/ Seed
  \/ Login
  \/ DeleteUser
  \/ CreateUserType
  \/ UpdateUserType
  \/ DeleteUserType

SeedSpec == Init /\ [][SeedNext]_vars

(* --------------------------- GET /articles ---------------------------- *)
\* the letters of a title, in the order the database sorts them
Alphabet == <<"a", "b", "c">>
LetterRank(c) == CHOOSE i \in 1..Len(Alphabet) : Alphabet[i] = c

\* ORDER BY title: text compares letter by letter, a prefix first
RECURSIVE LexLess(_, _)
LexLess(s, t) ==
  IF t = <<>> THEN FALSE
  ELSE IF s = <<>> THEN TRUE
  ELSE IF Head(s) = Head(t) THEN LexLess(Tail(s), Tail(t))
  ELSE LetterRank(Head(s)) < LetterRank(Head(t))

\* title: { contains: query }: query occurs in the title as one piece
Contains(title, query) ==
  \E i \in 0..(Len(title) - Len(query)) : SubSeq(title, i + 1, i + Len(query)) = query

\* the i-th article of the table ListSpec starts from.  Articles 10 and 11
\* were created in the same tick, articles 1 and 2 last updated in the same
\* tick, articles 5 and 6 carry the same title.
PoolArticle(i) ==
  LET k == IF i = 6 THEN 20 ELSE (i * 4) % 21
      letters == <<Alphabet[(k \div 9) + 1], Alphabet[((k \div 3) % 3) + 1],
                   Alphabet[(k % 3) + 1]>>
  IN
  [id |-> i,
   title |-> IF k % 3 = 0 THEN SubSeq(letters, 1, 2) ELSE letters,
   imageUrl |-> "http://x.io/a.png", content |-> "text", published |-> TRUE,
   createdAt |-> IF i = 11 THEN 10 ELSE i,
   updatedAt |-> IF i = 2 THEN 26 ELSE 21 + ((i * 5) % 21),
   userId |-> FirstAccount.id]

\* the query strings sent to GET /articles: every field is optional
ListQueries ==
  {<<>>, [query |-> <<>>], [query |-> <<"a">>], [query |-> <<"c", "c", "c">>]}
ListSorts ==
  {<<>>} \cup {[sortBy |-> k] : k \in {"createdAt", "updatedAt", "title"}}
ListDirections ==
  {<<>>} \cup {[orderByDirection |-> d] : d \in {"asc", "desc"}}
ListTakes == {<<>>} \cup {[take |-> t] : t \in {0, 3, DefaultTake}}
ListPages == {<<>>} \cup {[page |-> p] : p \in {2, 3}}
ListRequests ==
  {q @@ s @@ d @@ t @@ p :
     q \in ListQueries, s \in ListSorts, d \in ListDirections,
     t \in ListTakes, p \in ListPages}
\* rows that compare equal under ORDER BY come in an order the database
\* chooses: the one created first comes first, or last
TieBreaks == {"first", "last"}

\* the querystring schema of GET /articles
ValidListQuery(q) ==
  /\ "take" \in DOMAIN q => (q.take >= MinTake /\ q.take <= MaxTake)
  /\ "page" \in DOMAIN q => q.page >= MinPage

\* x's sort key is smaller than y's
KeyLess(x, y, sortBy) ==
  IF sortBy = "title" THEN LexLess(x.title, y.title) ELSE x[sortBy] < y[sortBy]

\* orderBy: { [sortBy]: orderByDirection }: x comes before y in the result
Precedes(x, y, sortBy, orderByDirection, tie) ==
  IF KeyLess(x, y, sortBy) THEN orderByDirection = "asc"
  ELSE IF KeyLess(y, x, sortBy) THEN orderByDirection = "desc"
  ELSE IF tie = "first" THEN x.id < y.id ELSE x.id > y.id

\* variant: skip whole pages, this one included
SkipThisPage(page, take) == page * take

\* skip: (page - 1) * take
Skip(page, take) == (page - 1) * take

\* prisma.article.findMany({ where, orderBy, take, skip })
findMany(rows, sortBy, orderByDirection, take, skip, tie) ==
  LET n == Cardinality(rows)
      sorted ==
        [i \in 1..n |->
           CHOOSE x \in rows :
             Cardinality({y \in rows : Precedes(y, x, sortBy, orderByDirection, tie)})
               = i - 1]
      last == IF skip + take < n THEN skip + take ELSE n
  IN SubSeq(sorted, skip + 1, last)

\* GET /articles
listAllArticles(q, tie) ==
  LET op == "listAllArticles" IN
  IF ~ValidListQuery(q)
  THEN [op |-> op, status |-> 400, request |-> q, articles |-> <<>>]
  ELSE
    LET sortBy == IF "sortBy" \in DOMAIN q THEN q.sortBy ELSE "createdAt"
        orderByDirection ==
          IF "orderByDirection" \in DOMAIN q THEN q.orderByDirection ELSE "asc"
        take == IF "take" \in DOMAIN q THEN q.take ELSE DefaultTake
        page == IF "page" \in DOMAIN q THEN q.page ELSE DefaultPage
        matching ==
          IF "query" \in DOMAIN q /\ q.query # <<>>
          THEN {a \in articles : Contains(a.title, q.query)}
          ELSE articles
    IN
    [op |-> op, status |-> 200, request |-> q,
     articles |-> findMany(matching, sortBy, orderByDirection, take,
                           Skip(page, take), tie)]

\* the database with the first n articles of the pool, before any listing
ListInit ==
  /\ users = {FirstAccount}
  /\ unconfirmedUsers = {}
  /\ userTypes = {[id |-> 1, type |-> "common"], [id |-> 2, type |-> "admin"]}
  /\ now = 2 * MaxListed
  /\ nextId = 4
  /\ issued = {}
  /\ removed = {}
  /\ refused = {}
  /\ loggedOut = {}
  /\ \E n \in 0..MaxListed :
       /\ articles = {PoolArticle(i) : i \in 1..n}
       /\ nextArticleId = n + 1
  /\ articleTags = {}
  /\ tags = {}
  /\ nextRowId = 1
  /\ nextTagId = 1
  /\ listed = NoListing
  /\ requests = [p \in Slots |-> Idle]

\* one GET /articles, answered from the table as it stands
ListAllArticles ==
  /\ listed = NoListing
  /\ \E q \in ListRequests, tie \in TieBreaks : listed' = listAllArticles(q, tie)
  /\ UNCHANGED <<userVars, articles, articleTags, tags, nextArticleId,
                 nextRowId, nextTagId, requests>>

ListNext == ListAllArticles

ListSpec == ListInit /\ [][ListNext]_vars

(* ------------------ requests in flight, await by await ---------------- *)
\* A handler runs from one await to the next without interruption; between
\* two awaits the other requests in flight, and the clock, may move.

\* the bodies of the registrations in flight
RaceBodies ==
  {[name |-> <<"Ann", "Lee">>, username |-> u, email |-> e, password |-> "password1"] :
     u \in Usernames, e \in EmailShaped}

\* the row of a registration staged before the requests in flight arrive
EarlierRow == StagedRow(4, <<"Ann", "Lee">>, "a@b.co", "c@d.co", "password1", 0)

\* the tables the requests in flight start from: those of Init; those after
\* the first account was deleted; those after a registration was staged; and
\* those after the first account then took the e-mail of the staged row
RaceStarts ==
  {[users |-> {FirstAccount}, unconfirmedUsers |-> {}, nextId |-> 4],
   [users |-> {}, unconfirmedUsers |-> {}, nextId |-> 4],
   [users |-> {FirstAccount}, unconfirmedUsers |-> {EarlierRow}, nextId |-> 5],
   [users |-> {[FirstAccount EXCEPT !.email = EarlierRow.email]},
    unconfirmedUsers |-> {EarlierRow}, nextId |-> 5]}

RaceInit ==
  /\ \E start \in RaceStarts :
       /\ users = start.users
       /\ unconfirmedUsers = start.unconfirmedUsers
       /\ nextId = start.nextId
  /\ userTypes = {[id |-> 1, type |-> "common"], [id |-> 2, type |-> "admin"]}
  /\ now = 0
  /\ issued = {}
  /\ removed = {}
  /\ refused = {}
  /\ loggedOut = {}
  /\ articles = {}
  /\ articleTags = {}
  /\ tags = {}
  /\ nextArticleId = 1
  /\ nextRowId = 1
  /\ nextTagId = 1
  /\ listed = NoListing
  /\ requests = [p \in Slots |-> Idle]

\* the request in place p moves on as r
Resume(p, r) == requests' = [requests EXCEPT ![p] = r]
\* the handler replied, or let an error escape
Replied(r, status) == [r EXCEPT !.pc = "done", !.status = status]
Escaped(r, class, message) ==
  [r EXCEPT !.pc = "done", !.thrown = class, !.message = message]

\* a POST /users arrives
ArriveCreate(p) ==
  /\ requests[p].op = "idle"
  /\ \E body \in RaceBodies :
       Resume(p, IF ValidCreateBody(body)
                   THEN [Idle EXCEPT !.op = "createUnconfirmedUser",
                                     !.pc = "findUsername", !.body = body]
                   ELSE Escaped([Idle EXCEPT !.op = "createUnconfirmedUser",
                                             !.body = body],
                                "ValidationError", "body"))
  /\ UNCHANGED <<userVars, articleVars>>

\* await prisma.user.findFirst({ where: { username } })
CreateFindUsername(p) ==
  LET r == requests[p] IN
  /\ r.op = "createUnconfirmedUser" /\ r.pc = "findUsername"
  /\ Resume(p, [r EXCEPT !.pc = "findEmail",
                         !.existingUsername = ExistingUsername(r.body.username)])
  /\ UNCHANGED <<userVars, articleVars>>

\* await prisma.user.findFirst({ where: { email } }), the two throws, and
\* bcrypt.hash up to the call of prisma.unconfirmedUser.create
CreateFindEmail(p) ==
  LET r == requests[p] IN
  /\ r.op = "createUnconfirmedUser" /\ r.pc = "findEmail"
  /\ Resume(p, IF r.existingUsername
                 THEN Escaped(r, "ClientError", "Username already in use")
               ELSE IF ExistingEmail(r.body.email)
                 THEN Escaped(r, "ClientError", "Email already in use")
               ELSE [r EXCEPT !.pc = "create"])
  /\ UNCHANGED <<userVars, articleVars>>

\* await prisma.unconfirmedUser.create: one statement, under the unique
\* indexes of unconfirmed_users
CreateInsert(p) ==
  LET r == requests[p]
      user == StagedRow(nextId, r.body.name, r.body.username, r.body.email,
                        r.body.password, now)
  IN
  /\ r.op = "createUnconfirmedUser" /\ r.pc = "create"
  /\ IF ~UnconfirmedUniqueOk(unconfirmedUsers, user)
       THEN /\ Resume(p, Escaped(r, "PrismaError", "Unique constraint failed"))
            /\ UNCHANGED <<unconfirmedUsers, nextId>>
       ELSE /\ nextId <= MaxRaceId
            /\ unconfirmedUsers' = unconfirmedUsers \cup {user}
            /\ nextId' = nextId + 1
            /\ Resume(p, [r EXCEPT !.pc = "sendMail", !.created = user.id])
  /\ UNCHANGED <<users, userTypes, now, issued, removed, refused, loggedOut>>
  /\ UNCHANGED articleVars

\* variant: a registration whose mail cannot be sent takes its row back
MailedOrNotUndone(p, mail, ok) ==
  LET r == requests[p] IN
  IF ok
    THEN /\ Resume(p, [Replied(r, IF r.op = "confirmEmail" THEN 200 ELSE 202)
                         EXCEPT !.attempts = @ + 1, !.sent = Append(@, mail)])
         /\ UNCHANGED unconfirmedUsers
    ELSE /\ Resume(p, [Escaped(r, "MailError", "sendMail failed")
                         EXCEPT !.attempts = @ + 1])
         /\ unconfirmedUsers' = {u \in unconfirmedUsers : u.id # r.created}

\* await mail.sendMail(mail): the transport accepts the mail and the handler
\* replies, or it rejects and the error escapes
MailedOrNot(p, mail, ok) ==
  LET r == requests[p] IN
  /\ Resume(p, IF ok
                 THEN [Replied(r, IF r.op = "confirmEmail" THEN 200 ELSE 202)
                         EXCEPT !.attempts = @ + 1, !.sent = Append(@, mail)]
                 ELSE [Escaped(r, "MailError", "sendMail failed")
                         EXCEPT !.attempts = @ + 1])
  /\ UNCHANGED unconfirmedUsers

\* await mail.sendMail(ConfirmationEmail(...)) and the reply
CreateSendMail(p) ==
  LET r == requests[p] IN
  /\ r.op = "createUnconfirmedUser" /\ r.pc = "sendMail"
  /\ \E ok \in BOOLEAN :
       MailedOrNot(p, ConfirmationEmail(FirstName(r.body.name), r.body.email, r.created), ok)
  /\ UNCHANGED <<users, userTypes, now, nextId, issued, removed, refused, loggedOut>>
  /\ UNCHANGED articleVars

\* a GET /users/confirm-email arrives: its user_id is a uuid of a link that
\* was mailed, or anything else, but never a uuid yet to be drawn
ArriveConfirm(p) ==
  /\ requests[p].op = "idle"
  /\ \E user_id \in {id \in Ids : id < nextId} :
       Resume(p, [Idle EXCEPT !.op = "confirmEmail", !.pc = "findFirst",
                              !.user_id = user_id])
  /\ UNCHANGED <<userVars, articleVars>>

\* await prisma.unconfirmedUser.findFirst, the throw, and the isBefore test
ConfirmFindFirst(p) ==
  LET r == requests[p] IN
  /\ r.op = "confirmEmail" /\ r.pc = "findFirst"
  /\ Resume(p, IF Staged(r.user_id) = {}
                 THEN Escaped(r, "ClientError", "User does not exist")
               ELSE LET existingUser == CHOOSE u \in Staged(r.user_id) : TRUE IN
                    [r EXCEPT !.existingUser = existingUser,
                              !.pc = IF Expired(existingUser, now)
                                       THEN "deleteExpired" ELSE "findType"])
  /\ UNCHANGED <<userVars, articleVars>>

\* prisma.unconfirmedUser.delete({ where: { id: existingUser.id } }) found
\* its row and deleted it
DeletedRow(p, how) ==
  LET r == requests[p] IN
  /\ \E u \in unconfirmedUsers : u.id = r.existingUser.id
  /\ unconfirmedUsers' = {u \in unconfirmedUsers : u.id # r.existingUser.id}
  /\ removed' = removed \cup {<<r.existingUser.id, how>>}

\* delete throws when its row does not exist
DeleteMissed(p) ==
  LET r == requests[p] IN
  /\ ~\E u \in unconfirmedUsers : u.id = r.existingUser.id
  /\ Resume(p, Escaped(r, "PrismaError", "Record to delete does not exist"))
  /\ UNCHANGED <<unconfirmedUsers, removed>>

\* the expiry branch: await prisma.unconfirmedUser.delete, then the throw
ConfirmDeleteExpired(p) ==
  LET r == requests[p] IN
  /\ r.op = "confirmEmail" /\ r.pc = "deleteExpired"
  /\ \/ /\ DeletedRow(p, "expired")
        /\ Resume(p, Escaped(r, "ClientError", "Register expired, please try again"))
     \/ DeleteMissed(p)
  /\ UNCHANGED <<users, userTypes, now, nextId, issued, refused, loggedOut>>
  /\ UNCHANGED articleVars

\* createAccount: await prisma.userType.findFirst and the throw
ConfirmFindType(p) ==
  LET r == requests[p] IN
  /\ r.op = "confirmEmail" /\ r.pc = "findType"
  /\ Resume(p, IF CommonTypes = {}
                 THEN Escaped(r, "Error", "User type 'common' not found.")
                 ELSE [r EXCEPT !.pc = "createUser",
                                !.userType = CHOOSE t \in CommonTypes : TRUE])
  /\ UNCHANGED <<userVars, articleVars>>

\* variant: users without its unique indexes
UserInsertOkAny(us, types, user) == UserTypeFkOk(types, user)

\* prisma.user.create: one statement, under the unique indexes of users and
\* users_user_type_id_fkey
UserInsertOk(us, types, user) == UserUniqueOk(us, user) /\ UserTypeFkOk(types, user)

\* createAccount: await prisma.user.create
ConfirmCreateUser(p) ==
  LET r == requests[p]
      user == AccountRow(nextId, r.existingUser, r.userType)
  IN
  /\ r.op = "confirmEmail" /\ r.pc = "createUser"
  /\ IF ~UserInsertOk(users, userTypes, user)
       THEN /\ Resume(p, Escaped(r, "PrismaError", "Unique constraint failed"))
            /\ UNCHANGED <<users, nextId>>
       ELSE /\ nextId <= MaxRaceId
            /\ users' = users \cup {user}
            /\ nextId' = nextId + 1
            /\ Resume(p, [r EXCEPT !.pc = "delete", !.created = user.id])
  /\ UNCHANGED <<unconfirmedUsers, userTypes, now, issued, removed, refused, loggedOut>>
  /\ UNCHANGED articleVars

\* await prisma.unconfirmedUser.delete after createAccount
ConfirmDelete(p) ==
  LET r == requests[p] IN
  /\ r.op = "confirmEmail" /\ r.pc = "delete"
  /\ \/ /\ DeletedRow(p, "promoted")
        /\ Resume(p, [r EXCEPT !.pc = "sendMail"])
     \/ DeleteMissed(p)
  /\ UNCHANGED <<users, userTypes, now, nextId, issued, refused, loggedOut>>
  /\ UNCHANGED articleVars

\* await mail.sendMail(successEmail(...)) and the reply
ConfirmSendMail(p) ==
  LET r == requests[p] IN
  /\ r.op = "confirmEmail" /\ r.pc = "sendMail"
  /\ \E ok \in BOOLEAN :
       MailedOrNot(p, successEmail(FirstName(r.existingUser.name), r.existingUser.email), ok)
  /\ UNCHANGED <<users, userTypes, now, nextId, issued, removed, refused, loggedOut>>
  /\ UNCHANGED articleVars

Arrive == \E p \in Slots : ArriveCreate(p) \/ ArriveConfirm(p)
CreateStep ==
  \E p \in Slots :
    CreateFindUsername(p) \/ CreateFindEmail(p) \/ CreateInsert(p) \/ CreateSendMail(p)
ConfirmStep ==
  \E p \in Slots :
    \/ ConfirmFindFirst(p)
    \/ ConfirmDeleteExpired(p)
    \/ ConfirmFindType(p)
    \/ ConfirmCreateUser(p)
    \/ ConfirmDelete(p)
    \/ ConfirmSendMail(p)

RaceNext ==
  \/ Tick
  \/ Arrive
  \/ CreateStep
  \/ ConfirmStep

RaceSpec == RaceInit /\ [][RaceNext]_vars

(* ===================== registration and confirmation ================== *)
\* C1: createUnconfirmedUser called with the username of an existing User, or
\* with the email of an existing User, fails with a client error, inserts no
\* UnconfirmedUser row and sends no mail.
C1_TakenIsRejected ==
  \A name \in Names, username \in Strings, email \in Strings, password \in Passwords :
    LET a == createUnconfirmedUser(name, username, email, password) IN
    (/\ ValidCreateBody([name |-> name, username |-> username,
                         email |-> email, password |-> password])
     /\ \/ \E u \in users : u.username = username
        \/ \E u \in users : u.email = email)
    => /\ a.thrown = "ClientError"
       /\ a.unconfirmedUsers = unconfirmedUsers
       /\ a.users = users
       /\ a.nextId = nextId
       /\ a.sent = <<>>

\* C1 happens: with rows staged, a registration whose username is free but
\* whose email belongs to a User is turned down
C1_Witness ==
  /\ unconfirmedUsers # {}
  /\ \E name \in Names, username \in Strings, email \in EmailShaped, password \in Passwords :
       /\ ~\E u \in users : u.username = username
       /\ \E u \in users : u.email = email
       /\ createUnconfirmedUser(name, username, email, password).message
            = "Email already in use"

\* C2 as stated: in every reachable state, whatever the UnconfirmedUser table
\* holds, createUnconfirmedUser with a username and an email that belong to no
\* User inserts exactly one UnconfirmedUser row carrying a hashed password,
\* sends exactly one confirmation mail whose link embeds the new row's id,
\* and answers 202.
C2_AsStated ==
  \A name \in Names, username \in Strings, email \in Strings, password \in Passwords :
    LET a == createUnconfirmedUser(name, username, email, password) IN
    (/\ ValidCreateBody([name |-> name, username |-> username,
                         email |-> email, password |-> password])
     /\ ~\E u \in users : u.username = username \/ u.email = email)
    => /\ a.status = 202
       /\ \E r \in a.unconfirmedUsers \ unconfirmedUsers :
            /\ a.unconfirmedUsers = unconfirmedUsers \cup {r}
            /\ r.username = username /\ r.email = email /\ r.name = name
            /\ r.password # Plain(password)
            /\ BcryptCompare(Plain(password), r.password)
            /\ Len(a.sent) = 1
            /\ a.sent[1].kind = "confirmation"
            /\ a.sent[1].to = email
            /\ a.sent[1].link = r.id

\* C2, amended: the same, when moreover no UnconfirmedUser row holds that
\* username or that email: the staged rows' username and email are unique.
C2_FreshIsStaged ==
  \A name \in Names, username \in Strings, email \in Strings, password \in Passwords :
    LET a == createUnconfirmedUser(name, username, email, password) IN
    (/\ ValidCreateBody([name |-> name, username |-> username,
                         email |-> email, password |-> password])
     /\ ~\E u \in users : u.username = username \/ u.email = email
     /\ ~\E r \in unconfirmedUsers : r.username = username \/ r.email = email)
    => /\ a.status = 202
       /\ a.users = users
       /\ \E r \in a.unconfirmedUsers \ unconfirmedUsers :
            /\ a.unconfirmedUsers = unconfirmedUsers \cup {r}
            /\ r.username = username /\ r.email = email /\ r.name = name
            /\ r.createdAt = now
            /\ r.password # Plain(password)
            /\ BcryptCompare(Plain(password), r.password)
            /\ Len(a.sent) = 1
            /\ a.sent[1].kind = "confirmation"
            /\ a.sent[1].to = email
            /\ a.sent[1].link = r.id

\* C2 happens: a registration was staged, with its hash, next to a row
\* staged before it
C2_Witness ==
  \E r1 \in unconfirmedUsers, r2 \in unconfirmedUsers :
    /\ r1.id < r2.id
    /\ r2.password = BcryptHash(Plain("password1"), SaltRounds)

\* C3: confirmEmail for an id with no UnconfirmedUser row fails with the
\* not-found client error and creates nothing, deletes nothing, sends nothing;
\* so does a second confirmEmail for an id once its row was promoted or
\* deleted as expired.
C3_UnknownIdIsNotFound ==
  /\ \A user_id \in Ids :
       LET a == confirmEmail(user_id) IN
       (~\E r \in unconfirmedUsers : r.id = user_id)
       => /\ a.thrown = "ClientError"
          /\ a.message = "User does not exist"
          /\ a.users = users
          /\ a.unconfirmedUsers = unconfirmedUsers
          /\ a.nextId = nextId
          /\ a.sent = <<>>
  /\ \A gone \in removed :
       LET a == confirmEmail(gone[1]) IN
       /\ a.message = "User does not exist"
       /\ a.users = users
       /\ a.unconfirmedUsers = unconfirmedUsers
       /\ a.sent = <<>>

\* C3 happens: a row was promoted, its User is there, and confirming the
\* same id again is not found
C3_Witness ==
  \E p \in removed :
    /\ p[2] = "promoted"
    /\ \E u \in users : u.id > p[1]
    /\ confirmEmail(p[1]).message = "User does not exist"

\* C4: confirmEmail for a row created more than 15 minutes ago deletes exactly
\* that row, fails with the expiry client error, creates no User and sends no
\* success mail.
C4_StaleIsDeleted ==
  \A r \in unconfirmedUsers :
    LET a == confirmEmail(r.id) IN
    now - r.createdAt > ExpiryMinutes * 60 * TicksPerSecond
    => /\ a.thrown = "ClientError"
       /\ a.message = "Register expired, please try again"
       /\ a.unconfirmedUsers = unconfirmedUsers \ {r}
       /\ a.users = users
       /\ a.sent = <<>>

\* C4 happens: a row was deleted as expired, and a row staged now is past
\* the window and will be deleted when its link is followed
C4_Witness ==
  /\ \E e \in removed : e[2] = "expired"
  /\ \E r \in unconfirmedUsers :
       /\ now - r.createdAt > ExpiryMinutes * 60 * TicksPerSecond
       /\ confirmEmail(r.id).unconfirmedUsers = unconfirmedUsers \ {r}

\* C5 as stated: in every reachable state with a row r within the 15-minute
\* window and the "common" type present, confirmEmail(r.id) creates exactly
\* one User with r's name, username, email and stored hash and the common
\* type's id, and deletes exactly r.
C5_AsStated ==
  \A r \in unconfirmedUsers :
    LET a == confirmEmail(r.id) IN
    (/\ now - r.createdAt <= ExpiryMinutes * 60 * TicksPerSecond
     /\ \E t \in userTypes : t.type = "common")
    => /\ \E u \in a.users \ users :
            /\ a.users = users \cup {u}
            /\ u.name = r.name /\ u.username = r.username /\ u.email = r.email
            /\ u.password = r.password
            /\ \E t \in userTypes : t.type = "common" /\ u.userTypeId = t.id
       /\ a.unconfirmedUsers = unconfirmedUsers \ {r}

\* C5, amended: the same, when moreover no User holds r's username or r's
\* email: the users' username and email are unique.
C5_FreshIsPromoted ==
  \A r \in unconfirmedUsers :
    LET a == confirmEmail(r.id) IN
    (/\ now - r.createdAt <= ExpiryMinutes * 60 * TicksPerSecond
     /\ \E t \in userTypes : t.type = "common"
     /\ ~\E u \in users : u.username = r.username \/ u.email = r.email)
    => /\ \E u \in a.users \ users :
            /\ a.users = users \cup {u}
            /\ u.name = r.name /\ u.username = r.username /\ u.email = r.email
            /\ u.password = r.password
            /\ \E t \in userTypes : t.type = "common" /\ u.userTypeId = t.id
       /\ a.unconfirmedUsers = unconfirmedUsers \ {r}
       /\ a.sent = <<successEmail(FirstName(r.name), r.email)>>

\* C5 happens: a row was promoted, next to the first account, to a User of
\* the common type that holds the hash staged with it
C5_Witness ==
  /\ \E p \in removed : p[2] = "promoted"
  /\ FirstAccount \in users
  /\ \E u \in users, t \in userTypes :
       /\ u.id > FirstAccount.id
       /\ u.password = BcryptHash(Plain("password1"), SaltRounds)
       /\ t.type = "common" /\ u.userTypeId = t.id

(* ========================== login and the gate ======================== *)
\* C6 as stated: for every User U, login with a credential equal to
\* U.username or to U.email and with U's password returns a token whose
\* subject is U.id, whose name, username and type are U's name, username and
\* userTypeId, and whose expiry is exactly 30 days after its issue time.
C6_AsStated ==
  \A U \in users, password \in Passwords :
    \A credential \in {U.username, U.email} :
      U.password = BcryptHash(Plain(password), SaltRounds)
      => \A a \in login(credential, password) :
           /\ a.status = 200
           /\ a.token # NoToken
           /\ a.token.payload.sub = U.id
           /\ a.token.payload.name = U.name
           /\ a.token.payload.username = U.username
           /\ a.token.payload.type = U.userTypeId
           /\ a.token.payload.exp = a.token.payload.iat + ExpirationDays * 24 * 60 * 60

\* C6, amended: the same, when the credential is the username or the email
\* of no other User: a username may be spelled as another User's email, and
\* login takes whichever matching row the database returns first.
C6_OwnCredentialGivesOwnToken ==
  \A U \in users, password \in Passwords :
    \A credential \in {U.username, U.email} :
      (/\ U.password = BcryptHash(Plain(password), SaltRounds)
       /\ \A V \in users \ {U} : V.username # credential /\ V.email # credential)
      => \A a \in login(credential, password) :
           /\ a.status = 200
           /\ a.token # NoToken
           /\ a.token.payload.sub = U.id
           /\ a.token.payload.name = U.name
           /\ a.token.payload.username = U.username
           /\ a.token.payload.type = U.userTypeId
           /\ a.token.payload.iat = now \div TicksPerSecond
           /\ a.token.payload.exp = a.token.payload.iat + ExpirationDays * 24 * 60 * 60

\* C6 happens: among several users, one holds the token login gave it, and
\* its email alone, which no other User holds, logs it in again
C6_Witness ==
  \E U \in users, i \in issued :
    /\ users # {U}
    /\ i.token.payload.sub = U.id
    /\ i.token.payload.username = U.username
    /\ i.token.payload.exp = i.token.payload.iat + ExpirationDays * 24 * 60 * 60
    /\ U.email # U.username
    /\ \A V \in users \ {U} : V.username # U.email /\ V.email # U.email
    /\ \E a \in login(U.email, U.password.text) : a.token # NoToken

\* C7: login issues a token only when some User's username or email equals
\* the credential and the password matches that User's stored hash; a
\* credential matching no User yields the not-found error, a wrong password
\* the mismatch error, both without a token; login modifies no table.
C7_TokenOnlyForMatch ==
  \A credential \in Strings, password \in Passwords :
    LET matching == {u \in users : u.username = credential \/ u.email = credential}
        right == {u \in matching : u.password = BcryptHash(Plain(password), SaltRounds)}
    IN
    \A a \in login(credential, password) :
      /\ a.token # NoToken => \E u \in right : a.token.payload.sub = u.id
      /\ matching = {}
         => /\ a.thrown = "ClientError"
            /\ a.message = "User does not exist"
            /\ a.token = NoToken
      /\ (matching # {} /\ right = {})
         => /\ a.thrown = "ClientError"
            /\ a.message = "Password does not match"
            /\ a.token = NoToken
      /\ a.users = users
      /\ a.unconfirmedUsers = unconfirmedUsers
      /\ a.userTypes = userTypes
      /\ a.nextId = nextId

\* C7 happens: a token was issued, a User whose password was changed is
\* refused with the old one, and some credential matches nobody
C7_Witness ==
  /\ issued # {}
  /\ \E u \in users :
       /\ u.password = BcryptHash(Plain("password2"), SaltRounds)
       /\ \A a \in login(u.username, "password1") :
            a.message = "Password does not match" /\ a.token = NoToken
  /\ \E credential \in Strings :
       \A a \in login(credential, "password1") : a.message = "User does not exist"

C9_AsStated ==
  \A header \in Headers :
    LET bearer == /\ Len(header) = 2
                  /\ header[1] = Word("Bearer")
                  /\ IsJwt(header[2])
        g == verifyToken(header, now)
    IN
    /\ ~bearer => g.status = 401
    /\ g.status # 401
       => /\ bearer
          /\ header[2].sig = [key |-> JWT_SECRET_KEY, over |-> header[2].payload]
          /\ now \div TicksPerSecond < header[2].payload.exp

\* C10 as stated: a token issued by login at time t is accepted by
\* verifyToken at every time before t + 30 days and answered 401 at every
\* time after t + 30 days, whatever requests came in between.
C10_AsStated ==
  \A i \in issued :
    LET g == verifyToken(<<Word("Bearer"), i.token>>, now)
        end == i.at + ExpirationDays * 24 * 60 * 60 * TicksPerSecond
    IN
    /\ now < end => g.status # 401
    /\ now > end => g.status = 401

\* C10, amended: a token counts its time in whole seconds: issued at time t
\* it carries iat = floor(t) and exp = iat + 30 days; verifyToken accepts it
\* at every time whose whole second is before exp and answers 401 at every
\* time from exp on, which may be up to a second before t + 30 days,
\* whatever requests came in between.
C10_ValidForThirtyDays ==
  \A i \in issued :
    LET g == verifyToken(<<Word("Bearer"), i.token>>, now)
        iat == i.at \div TicksPerSecond
        exp == iat + ExpirationDays * 24 * 60 * 60
    IN
    /\ i.token.payload.iat = iat
    /\ i.token.payload.exp = exp
    /\ now \div TicksPerSecond < exp => g.status # 401 /\ g.user = i.token.payload
    /\ now \div TicksPerSecond >= exp => g.status = 401

\* C10 happens: a token was used to change the tables, 30 days went by and
\* the gate now answers 401 to it
C10_Witness ==
  \E i \in issued :
    /\ FirstAccount \notin users
    /\ now >= i.at + ExpirationDays * 24 * 60 * 60 * TicksPerSecond
    /\ verifyToken(<<Word("Bearer"), i.token>>, now).status = 401

(* ======================= logout, articles, failures =================== *)
\* C11: logout changes no server-side state: after any number of logout
\* calls, every token issued earlier and not yet expired is still accepted by
\* verifyToken on the protected routes.
C11_LogoutRevokesNothing ==
  /\ \A header \in Headers :
       LET g == Gated("logout", header, logout) IN
       /\ g.users = users
       /\ g.unconfirmedUsers = unconfirmedUsers
       /\ g.userTypes = userTypes
       /\ g.nextId = nextId
  /\ \A i \in issued :
       (/\ i.token.payload \in loggedOut
        /\ now \div TicksPerSecond < i.token.payload.exp)
       => /\ verifyToken(<<Word("Bearer"), i.token>>, now).status # 401
          /\ Gated("listAllUsers", <<Word("Bearer"), i.token>>, listAllUsers).ran
          /\ Gated("logout", <<Word("Bearer"), i.token>>, logout).status = 200

\* C11 happens: the holder of a token logged out, time went by, and the token
\* still opens the protected routes
C11_Witness ==
  \E i \in issued :
    /\ i.token.payload \in loggedOut
    /\ now > i.at
    /\ now \div TicksPerSecond < i.token.payload.exp
    /\ Gated("deleteUser", <<Word("Bearer"), i.token>>, deleteUser(i.token.payload.sub)).ran

\* C15: in every state reachable by any sequence of registration,
\* confirmation, user update and user delete requests, no two User rows share
\* a username and no two User rows share an email.
C15_UsersAreUnique ==
  \A u \in users, v \in users :
    u # v => /\ u.id # v.id
             /\ u.username # v.username
             /\ u.email # v.email

\* C15 happens: two users exist, and the update that would give one of them
\* the other's email is turned down
C15_Witness ==
  \E u \in users, v \in users :
    /\ u # v
    /\ updateUser(u.id, [email |-> v.email]).message = "Unique constraint failed"
    /\ updateUser(u.id, [email |-> v.email]).users = users

C18_CreateDeleteThenMail ==
  \A user_id \in Ids, fault \in Faults :
    LET a == confirmEmailWith(user_id, fault)
        created == a.users # users
        deleted == a.unconfirmedUsers # unconfirmedUsers
        mailed == a.sent # <<>>
        expired == a.message = "Register expired, please try again"
    IN
    /\ mailed => deleted /\ created
    /\ deleted /\ ~expired => created
    /\ mailed
       => /\ Len(a.sent) = 1
          /\ a.sent[1].kind = "success"
          /\ \E u \in a.users : u.email = a.sent[1].to
          /\ ~\E r \in a.unconfirmedUsers : r.id = user_id \/ r.email = a.sent[1].to
          /\ a.status = 200
    /\ a.thrown # "none" => ~mailed
    /\ a.message \in {"User does not exist", "Register expired, please try again",
                      "User type 'common' not found.", "Unique constraint failed"}
       => ~mailed /\ ~created

\* C18 happens: next to the first account, for a row staged now, the run cut
\* at the delete has created the User only, the run cut at the mail has
\* created the User and deleted the row, and the whole run has sent the mail
C18_Witness ==
  /\ FirstAccount \in users
  /\ \E r \in unconfirmedUsers :
       /\ confirmEmailWith(r.id, "delete").users # users
       /\ confirmEmailWith(r.id, "delete").unconfirmedUsers = unconfirmedUsers
       /\ confirmEmailWith(r.id, "mail").unconfirmedUsers = unconfirmedUsers \ {r}
       /\ confirmEmailWith(r.id, "mail").sent = <<>>
       /\ confirmEmailWith(r.id, "none").sent = <<successEmail(FirstName(r.name), r.email)>>

C12_AsStated ==
  \A a \in articles, T \in TagLists :
    (/\ Len(T) > 0
     /\ \A i \in 1..Len(T) : \E t \in tags : t.id = T[i])
    => LET r == updateArticle(a.id, [tagIds |-> T])
           before == {x \in articleTags : x.articleId = a.id}
           after == {x \in r.articleTags : x.articleId = a.id}
           setT == {T[i] : i \in 1..Len(T)}
       IN
       /\ {x.tagId : x \in after} = setT
       /\ {x \in before : x.tagId \in setT} \subseteq after
       /\ \A x \in after \ before : x.id >= nextRowId

\* C12: for an existing article with previous tag set P and a non-empty tagIds
\* list T of existing tag ids that names no tag outside P twice, updateArticle
\* answers 200 and leaves the article's tag set equal to the set of T: the rows
\* of P \ T are deleted, one fresh row is inserted for each tag of T \ P, and
\* the rows of P \cap T are the same rows as before.  The rows of the other
\* articles are as before.
C12_SyncsToTheList ==
  \A a \in articles, T \in TagLists :
    LET P == {x.tagId : x \in {y \in articleTags : y.articleId = a.id}}
        setT == {T[i] : i \in 1..Len(T)}
    IN
    (/\ Len(T) > 0
     /\ \A i \in 1..Len(T) : \E t \in tags : t.id = T[i]
     /\ \A i, j \in 1..Len(T) : (i # j /\ T[i] = T[j]) => T[i] \in P)
    => LET r == updateArticle(a.id, [tagIds |-> T])
           before == {x \in articleTags : x.articleId = a.id}
           after == {x \in r.articleTags : x.articleId = a.id}
       IN
       /\ r.status = 200
       /\ {x.tagId : x \in after} = setT
       /\ after \cap before = {x \in before : x.tagId \in setT}
       /\ \A t \in setT \ P :
            Cardinality({x \in after \ before : x.tagId = t}) = 1
       /\ \A x \in after \ before : x.id >= nextRowId /\ x.tagId \in setT \ P
       /\ {x \in r.articleTags : x.articleId # a.id}
            = {x \in articleTags : x.articleId # a.id}

\* C12 happens: an article tagged 1 and 2 is sent tagIds [2, 3]; the row of
\* tag 1 goes, the row of tag 2 stays the row it was, a row for tag 3 comes
C12_Witness ==
  \E a \in articles :
    LET before == {x \in articleTags : x.articleId = a.id}
        r == updateArticle(a.id, [tagIds |-> <<2, 3>>])
        after == {x \in r.articleTags : x.articleId = a.id}
    IN
    /\ {x.tagId : x \in before} = {1, 2}
    /\ \E t \in tags : t.id = 3
    /\ r.status = 200
    /\ {x.tagId : x \in after} = {2, 3}
    /\ {x.tagId : x \in after \cap before} = {2}
    /\ {x.tagId : x \in before \ after} = {1}

\* C13: updateArticle called for an existing article with tagIds omitted or
\* with an empty tagIds list answers 200 and deletes every tag association of
\* that article, also when the request only changes title, content, imageUrl
\* or published; the associations of all other articles are as before.
C13_NoTagIdsClearsTheTags ==
  \A a \in articles, body \in UpdateArticleBodies :
    ("tagIds" \notin DOMAIN body \/ body.tagIds = <<>>)
    => LET r == updateArticle(a.id, body) IN
       /\ r.status = 200
       /\ ~\E x \in r.articleTags : x.articleId = a.id
       /\ {x \in r.articleTags : x.articleId # a.id}
            = {x \in articleTags : x.articleId # a.id}
       /\ r.nextRowId = nextRowId

\* C13 happens: two articles carry tags, and a request that only changes the
\* fields of one of them takes its tags away and leaves those of the other
C13_Witness ==
  \E a, b \in articles :
    LET body == [title |-> <<"a", "b">>, imageUrl |-> "http://x.io/b.png",
                 content |-> "more", published |-> FALSE]
        r == updateArticle(a.id, body)
    IN
    /\ a.id # b.id
    /\ \E x \in articleTags : x.articleId = a.id
    /\ \E x \in articleTags : x.articleId = b.id
    /\ r.status = 200
    /\ r.articleTags = {x \in articleTags : x.articleId = b.id}
    /\ updateArticle(a.id, [tagIds |-> <<>>]).articleTags = r.articleTags

\* C19: updateArticle is not atomic: when the insertion of the new
\* associations is rejected, the request fails and what the earlier steps
\* wrote remains: the article carries the fields of the request, the
\* associations of the article whose tag is absent from tagIds are deleted,
\* and no association is inserted.
C19_FailedUpdatePersists ==
  \A a \in articles, body \in UpdateArticleBodies :
    LET r == updateArticle(a.id, body) IN
    r.thrown # "none"
    => LET T == body.tagIds
           setT == {T[i] : i \in 1..Len(T)}
           mine == {x \in articleTags : x.articleId = a.id}
       IN
       /\ "tagIds" \in DOMAIN body
       /\ r.status = 0
       /\ r.articleTags = articleTags \ {x \in mine : x.tagId \notin setT}
       /\ \E n \in r.articles :
            /\ r.articles \ {n} = articles \ {a}
            /\ n.id = a.id /\ n.userId = a.userId /\ n.createdAt = a.createdAt
            /\ n.updatedAt = now
            /\ \A f \in {"title", "imageUrl", "content", "published"} :
                 n[f] = IF f \in DOMAIN body THEN body[f] ELSE a[f]

\* C19 happens: an article tagged 1 is sent new fields and tagIds [2, 2]; the
\* request fails on the unique index, the article has the new title and the
\* row of tag 1 is gone
C19_Witness ==
  \E a \in articles :
    LET body == [title |-> <<"a", "b">>, imageUrl |-> "http://x.io/b.png",
                 content |-> "more", published |-> FALSE, tagIds |-> <<2, 2>>]
        r == updateArticle(a.id, body)
    IN
    /\ a.title = <<"a">>
    /\ {x.tagId : x \in {y \in articleTags : y.articleId = a.id}} = {1}
    /\ \E t \in tags : t.id = 2
    /\ r.thrown = "PrismaError"
    /\ \E n \in r.articles : n.id = a.id /\ n.title = <<"a", "b">>
    /\ ~\E x \in r.articleTags : x.articleId = a.id

\* C14: a listing with take = t and page = p (10 and 1 when left out) answers
\* exactly rows (p-1)*t+1 through p*t of the articles whose title contains the
\* query, sorted by sortBy in the direction asked (createdAt, asc when left
\* out), and fewer rows if the set ends earlier: the k-th row answered stands
\* at place (p-1)*t+k of the sorted set; e.g. take=10, page=2 gives rows 11-20.
C14_PageIsASlice ==
  (listed # NoListing /\ listed.status = 200)
  => LET q == listed.request
         res == listed.articles
         t == IF "take" \in DOMAIN q THEN q.take ELSE 10
         p == IF "page" \in DOMAIN q THEN q.page ELSE 1
         key == IF "sortBy" \in DOMAIN q THEN q.sortBy ELSE "createdAt"
         dir == IF "orderByDirection" \in DOMAIN q THEN q.orderByDirection ELSE "asc"
         F == {a \in articles :
                 ("query" \in DOMAIN q) =>
                   \E i \in 0..Len(a.title) : \E j \in i..Len(a.title) :
                        SubSeq(a.title, i + 1, j) = q.query}
         n == Cardinality(F)
         Ahead(x, y) == IF dir = "asc" THEN KeyLess(x, y, key) ELSE KeyLess(y, x, key)
     IN
     /\ Len(res) = IF n <= (p - 1) * t THEN 0
                   ELSE IF n >= p * t THEN t ELSE n - (p - 1) * t
     /\ \A k \in 1..Len(res) :
          LET place == (p - 1) * t + k IN
          /\ res[k] \in F
          /\ Cardinality({y \in F : Ahead(y, res[k])}) <= place - 1
          /\ Cardinality({y \in F : ~Ahead(res[k], y)}) >= place
     /\ \A k, l \in 1..Len(res) : k < l => res[k] # res[l]

\* C14 happens: take=10 and page=2 over 21 articles answers ten rows, the
\* last of them the 20th created (the 10th and 11th were created in the same
\* tick, so either may be the first)
C14_Witness ==
  /\ Cardinality(articles) = 21
  /\ listed # NoListing
  /\ listed.status = 200
  /\ listed.request = [take |-> 10, page |-> 2]
  /\ Len(listed.articles) = 10
  /\ listed.articles[2].createdAt = 12
  /\ listed.articles[10].createdAt = 20

(* ================ frames, races, round trips, integrity =============== *)
\* C21: an UnconfirmedUser row is removed only by a confirmEmail call for its
\* own id, by promotion or by the expiry branch: in every step that takes a
\* row out of the table, that row's id enters the history of the rows
\* confirmEmail deleted.  No other operation and no passage of time removes
\* a row, however old it is.
C21_OnlyItsConfirmRemoves ==
  [][\A r \in unconfirmedUsers :
       r \notin unconfirmedUsers'
       => /\ now' = now
          /\ \E how \in {"promoted", "expired"} :
               /\ <<r.id, how>> \in removed'
               /\ <<r.id, how>> \notin removed
          /\ unconfirmedUsers' = unconfirmedUsers \ {r}
          /\ confirmEmail(r.id).unconfirmedUsers = unconfirmedUsers']_vars

\* C21 happens: a row is past its 15 minutes, requests were served since (a
\* token was issued after the window closed), and the row is still there
C21_Witness ==
  \E r \in unconfirmedUsers :
    /\ now - r.createdAt > ExpiryMinutes * 60 * TicksPerSecond
    /\ \E i \in issued : i.at - r.createdAt > ExpiryMinutes * 60 * TicksPerSecond
    /\ confirmEmail(r.id).unconfirmedUsers = unconfirmedUsers \ {r}

\* C22: under any interleaving of two createUnconfirmedUser requests carrying
\* the same username, or the same email, at most one UnconfirmedUser row with
\* that username (email) exists at any time and no mail is sent for a request
\* that inserted no row; and, as long as no confirmEmail has removed the row
\* one of the two inserted, at most one of the two requests inserts a row and
\* the other one ends with an error instead of 202.
C22_OneRowPerRace ==
  \A p, q \in Slots :
    LET a == requests[p]
        b == requests[q]
    IN
    (/\ p # q
     /\ a.op = "createUnconfirmedUser" /\ b.op = "createUnconfirmedUser"
     /\ (a.body.username = b.body.username \/ a.body.email = b.body.email))
    => /\ a.body.username = b.body.username
            => Cardinality({u \in unconfirmedUsers : u.username = a.body.username}) <= 1
       /\ a.body.email = b.body.email
            => Cardinality({u \in unconfirmedUsers : u.email = a.body.email}) <= 1
       /\ (\A x \in removed : x[1] # a.created /\ x[1] # b.created)
            => /\ ~(a.created # 0 /\ b.created # 0)
               /\ (a.created # 0 /\ b.pc = "done")
                    => (b.thrown # "none" /\ b.status # 202 /\ b.sent = <<>>)
       /\ a.created = 0 => a.sent = <<>>

\* C22 happens: two registrations with one username and two e-mails both
\* passed the look-ups in users; one inserted its row and was answered 202,
\* the other met the unique index
C22_Witness ==
  \E p, q \in Slots :
    LET a == requests[p]
        b == requests[q]
    IN
    /\ p # q
    /\ a.op = "createUnconfirmedUser" /\ b.op = "createUnconfirmedUser"
    /\ a.body.username = b.body.username /\ a.body.email # b.body.email
    /\ a.status = 202 /\ Len(a.sent) = 1
    /\ \E u \in unconfirmedUsers : u.id = a.created /\ u.username = a.body.username
    /\ b.pc = "done" /\ b.message = "Unique constraint failed" /\ b.sent = <<>>

\* C23: a request calls sendMail at most once and never again after it
\* failed.  When the confirmation mail of createUnconfirmedUser fails, the
\* request ends with the error, no mail is sent, and the UnconfirmedUser row it
\* inserted stays in the table (until a confirmEmail for its id removes it);
\* when the success mail of confirmEmail fails, the request ends with the
\* error while the User it created remains and the staging row stays deleted.
C23_MailFailureFailsTheRequest ==
  \A p \in Slots :
    LET r == requests[p] IN
    /\ r.attempts <= 1
    /\ r.thrown = "MailError"
         => /\ r.pc = "done" /\ r.attempts = 1 /\ r.sent = <<>>
            /\ r.status \notin {200, 202}
            /\ r.op = "createUnconfirmedUser"
                 => \/ \E u \in unconfirmedUsers :
                         /\ u.id = r.created
                         /\ u.username = r.body.username /\ u.email = r.body.email
                    \/ \E how \in {"promoted", "expired"} : <<r.created, how>> \in removed
            /\ r.op = "confirmEmail"
                 => /\ \E u \in users :
                         /\ u.id = r.created
                         /\ u.username = r.existingUser.username
                         /\ u.password = r.existingUser.password
                    /\ ~\E u \in unconfirmedUsers : u.id = r.user_id

\* C23 happens: the confirmation mail of a registration failed and its row
\* was in the table for a confirmEmail to find; that confirmEmail created the
\* User, deleted the row, and then its success mail failed too
C23_Witness ==
  \E p, q \in Slots :
    LET a == requests[p]
        b == requests[q]
    IN
    /\ a.op = "createUnconfirmedUser" /\ a.thrown = "MailError" /\ a.created # 0
    /\ b.op = "confirmEmail" /\ b.thrown = "MailError" /\ b.user_id = a.created
    /\ \E u \in users : u.id = b.created /\ u.username = a.body.username
    /\ unconfirmedUsers = {}
    /\ a.sent = <<>> /\ b.sent = <<>>

C26_AsStated ==
  [][\A r \in unconfirmedUsers : \A u \in users' \ users :
       (r \notin unconfirmedUsers' /\ u.username = r.username)
       => \A credential \in {r.username, r.email} :
            \A a \in login(credential, r.password.text)' :
              /\ a.token # NoToken
              /\ a.token.payload.sub = u.id]_vars

\* C26: the same round trip, for a credential that is the username or the
\* email of no other User: login with the row's username or email and the
\* password of the registration returns a token whose subject is the promoted
\* User's id, and the User carries the staged hash itself.
C26_RoundTrip ==
  [][\A r \in unconfirmedUsers : \A u \in users' \ users :
       (r \notin unconfirmedUsers' /\ u.username = r.username)
       => /\ u.password = r.password
          /\ u.email = r.email
          /\ \A credential \in {r.username, r.email} :
               (\A v \in users : v.username # credential /\ v.email # credential)
               => \A a \in login(credential, r.password.text)' :
                    /\ a.status = 200
                    /\ a.token # NoToken
                    /\ a.token.payload.sub = u.id]_vars

\* C26 happens: a staged row was promoted, and the promoted User holds the
\* token that login gave for its email and the password it registered with
C26_Witness ==
  \E e \in removed, u \in users, i \in issued :
    /\ e[2] = "promoted"
    /\ u.id > e[1]
    /\ u.password = BcryptHash(Plain("password1"), SaltRounds)
    /\ i.token.payload.sub = u.id
    /\ \A v \in users \ {u} : v.username # u.email /\ v.email # u.email
    /\ \E a \in login(u.email, "password1") :
         a.token # NoToken /\ a.token.payload.sub = u.id

\* C27: the decision of verifyToken depends on the Authorization header, the
\* secret and the current time only: a step that changes the tables and not
\* the clock leaves the decision for every header as it was, and a token
\* issued by login is accepted until its expiry with the claims it was signed
\* with, whether or not a User with its subject still exists or still has
\* the signed username and type.
C27_GateReadsNoTable ==
  [][/\ now' = now =>
          \A header \in Headers :
            verifyToken(header, now)' = verifyToken(header, now)
     /\ \A i \in issued :
          Timestamp(now) < i.token.payload.exp =>
            verifyToken(<<Word("Bearer"), i.token>>, now) =
              [status |-> 0, error |-> "", user |-> i.token.payload]]_vars
\* a token whose User was deleted, and a token whose User changed username,
\* still pass the gate
C27_Witness ==
  \E i \in issued :
    /\ verifyToken(<<Word("Bearer"), i.token>>, now).status # 401
    /\ verifyToken(<<Word("Bearer"), i.token>>, now).user.sub = i.token.payload.sub
    /\ \/ ~\E u \in users : u.id = i.token.payload.sub
       \/ \E u \in users : /\ u.id = i.token.payload.sub
                            /\ u.username # i.token.payload.username

\* C28: for every Authorization header the gate accepts and every body, a body
\* that names a userId of its own included, a createArticle that answers 201
\* has added exactly one Article, whose userId is the subject claim of the
\* token in the header, and exactly one ArticleTag row per entry of tagIds,
\* each for the new article and the tag of its entry; a header the gate
\* refuses creates nothing.
C28_AuthorIsTheTokenSubject ==
  LET claims(s) == [sub |-> s, name |-> FirstAccount.name,
                    username |-> FirstAccount.username,
                    type |-> FirstAccount.userTypeId]
      headers == {<<Word("Bearer"), JwtSign(claims(s), key, now)>> :
                    s \in Subs, key \in {JWT_SECRET_KEY, OtherKey}}
      bodies == CreateArticleBodies \cup
                {[title |-> b.title, imageUrl |-> b.imageUrl, content |-> b.content,
                  tagIds |-> b.tagIds, userId |-> s] :
                   b \in CreateArticleBodies, s \in Subs}
  IN
  \A header \in headers, body \in bodies :
    LET g == verifyToken(header, now) IN
    IF g.status = 401
      THEN SecondPart(header).sig.key # JWT_SECRET_KEY
      ELSE
        LET a == createArticle(g.user.sub, body)
            added == a.articles \ articles
            rows == a.articleTags \ articleTags
        IN
        /\ g.user.sub = SecondPart(header).payload.sub
        /\ a.status = 201 =>
             /\ articles \subseteq a.articles
             /\ articleTags \subseteq a.articleTags
             /\ Cardinality(added) = 1
             /\ \A n \in added : n.userId = SecondPart(header).payload.sub
                                 /\ n.id = a.id
             /\ Cardinality(rows) = Len(body.tagIds)
             /\ \A r \in rows : r.articleId = a.id
             /\ \A i \in 1..Len(body.tagIds) :
                  \E r \in rows : r.tagId = body.tagIds[i]
        /\ a.status # 201 =>
             a.articles = articles /\ a.articleTags = articleTags
\* an article of the first account stands with two tags, and a further one
\* can be created for a body that names another user
C28_Witness ==
  /\ \E n \in articles :
       /\ n.userId = FirstAccount.id
       /\ Cardinality({r \in articleTags : r.articleId = n.id}) = 2
  /\ createArticle(FirstAccount.id,
                   [title |-> <<"a">>, imageUrl |-> "http://x.io/a.png",
                    content |-> "text", tagIds |-> <<1>>, userId |-> MaxId]).status = 201

\* C29: in every reachable state every User refers to an existing UserType,
\* every Article to an existing User and every ArticleTag to an existing
\* Article and an existing Tag; and a delete of a UserType, Tag, Article or
\* User that a row still refers to throws and leaves every table as it was.
C29_ForeignKeysHold ==
  /\ \A u \in users : \E t \in userTypes : t.id = u.userTypeId
  /\ \A a \in articles : \E u \in users : u.id = a.userId
  /\ \A r \in articleTags :
       /\ \E a \in articles : a.id = r.articleId
       /\ \E t \in tags : t.id = r.tagId
  /\ \A id \in Ids :
       (\E u \in users : u.userTypeId = id) =>
         LET d == deleteUserType(id) IN
         /\ d.thrown # "none"
         /\ d.userTypes = userTypes /\ d.users = users
  /\ \A id \in Ids :
       (\E a \in articles : a.userId = id) =>
         LET d == deleteUser(id) IN
         /\ d.thrown # "none"
         /\ d.userTypes = userTypes /\ d.users = users
  /\ \A id \in ArticleIds :
       (\E r \in articleTags : r.articleId = id) =>
         LET d == deleteArticle(id) IN
         /\ d.thrown # "none"
         /\ d.articles = articles /\ d.articleTags = articleTags /\ d.tags = tags
  /\ \A id \in TagIds :
       (\E r \in articleTags : r.tagId = id) =>
         LET d == deleteTag(id) IN
         /\ d.thrown # "none"
         /\ d.articles = articles /\ d.articleTags = articleTags /\ d.tags = tags
\* a User with an article that has a tag, after a tag and an article that
\* nothing referred to were deleted: each of the four deletes meets a
\* reference
C29_Witness ==
  /\ \E a \in articles, r \in articleTags, u \in users :
       /\ r.articleId = a.id /\ a.userId = u.id
       /\ deleteUser(u.id).thrown = "PrismaError"
       /\ deleteUserType(u.userTypeId).thrown = "PrismaError"
       /\ deleteArticle(a.id).thrown = "PrismaError"
       /\ deleteTag(r.tagId).thrown = "PrismaError"
  /\ Cardinality(tags) < nextTagId - 1
  /\ Cardinality(articles) < nextArticleId - 1

\* C30: from every state, after one run of the seed exactly one UserType is
\* named "common" and exactly one "admin", every row that existed is still
\* there with its id and its type, the run threw nothing, and a second run
\* changes nothing and draws no id.
C30_SeedIsIdempotent ==
  LET once == main(userTypes, nextId)
      twice == main(once.userTypes, once.nextId)
  IN
  /\ Cardinality({t \in once.userTypes : t.type = "common"}) = 1
  /\ Cardinality({t \in once.userTypes : t.type = "admin"}) = 1
  /\ userTypes \subseteq once.userTypes
  /\ \A t \in once.userTypes \ userTypes : t.id >= nextId
  /\ once.thrown = "none"
  /\ twice = once
\* the seed ran after "common" was lost: the type is back under a fresh id
\* next to an "admin" that kept its own, and another run changes nothing
C30_Witness ==
  /\ \E t \in userTypes : t.type = "common" /\ t.id > FirstAccount.id
  /\ \E t \in userTypes : t.type = "admin" /\ t.id < FirstAccount.id
  /\ main(userTypes, nextId).userTypes = userTypes

====
